---------------------------- MODULE Spec2Model ----------------------------
(***************************************************************************)
(* Model of the TPS test harness: the single-type driver                   *)
(* (src/unnamed/part_000), the mixed driver (src/unnamed/part_001) and the *)
(* payload generator (src/unnamed/part_003).                               *)
(*                                                                         *)
(* The drivers run on the JavaScript event loop: code between two awaits   *)
(* is one atomic step, and every await is a point where another pending    *)
(* continuation (an RPC response, a timer) may run first.  Each action     *)
(* below is one such run-to-the-next-await step.                           *)
(***************************************************************************)
EXTENDS Integers, Sequences, FiniteSets, TLC

VARIABLES
  driver,              \* "single" (part_000) or "mixed" (part_001)
  \* ---- fireAndForgetBroadcast ----
  signedTxs,           \* the queue of signed envelopes
  concurrentRequests,  \* config.concurrentRequests
  bPc,                 \* "init" | "awaitAll" | "returned"
  workersStarted,      \* iterations done of the worker-start loop
  nextIndex,           \* the shared queue index
  wPc,                 \* per worker: "idle" | "fetch" | "json" | "done"
  wIdx,                \* per worker: the queue index it holds
  successCount,
  errorCount,
  firstError,
  txHashes,
  errorTypes,
  errorExamples,
  rpcLog,              \* the endpoint's view: [w, idx] per submission received
  \* ---- waitForConfirmations ----
  trackedHashes,       \* txHashes.map(t => t.hash), the argument
  pending,             \* the pending Set, in insertion order
  receipts,
  cPc,                 \* "entry" | "polling" | "sleeping" | "returned"
  checkBatch,          \* the hashes queried in the current poll round
  query,               \* per hash: "none" | "inflight" | "receipt" | "null"
  now,                 \* Date.now(), in poll intervals
  startTime,
  mined,               \* hashes the chain has a receipt for
  pollRounds,          \* poll rounds started
  sleepCount,          \* sleeps started
  \* ---- parseArgs, setupContracts, generatePayload / prepareAndSign ----
  mixString,           \* --txMix: the ':'-separated fields, each by its value
  txMix,               \* config.txMix
  txCount,             \* config.txCount
  numSenders,          \* senders.length (senders are numbered from 0)
  contracts,           \* which of token / weth / router addresses are set
  gPc,                 \* "args" | "setup" | "fund" | "generate" | "nonces" |
                       \* "fee" | "built" | "threw"
  chainNonce,          \* per sender: its transactions mined so far
  nonces,              \* what each sender's getNonce() returned
  unsignedTxs,
  \* ---- createAndFundSenders (mixed driver): router approvals ----
  aPc,                 \* "idle" | "approving" | "sleep2000" | "sleep1000" |
                       \* "done"
  apPc,                \* per sender's approval promise: "getNonce" | "sign" |
                       \* "fetch" | "json" | "true" | "false"
  senderNonce,         \* per sender: the nonce its approval is built with
  signedApprovals,     \* [sender, nonce] of every approval signed
  txPool,              \* senders whose approval the node holds unmined
  \* ---- categorizeError, applied to one message ----
  clsMsg,              \* the errorMsg argument
  clsCategory,         \* the category returned
  clsPc,               \* "idle" | "call" | "returned"
  \* ---- signTransactions (the signing loop of prepareAndSignTransactions in the single driver) ----
  sgUnsigned,          \* the unsignedTxs argument
  sgI,                 \* the batch loop's i
  sgResults,           \* the current batch's promises: Undefined while pending, then
                       \* the envelope or Null
  sgSigned,            \* the signedTxs being built
  sgFailed,            \* indices whose signTransaction threw
  sgPc,                \* "idle" | "batch" | "returned"
  \* ---- main ----
  mPc,                 \* main's position: "idle" | "connect" | "balance" |
                       \* "setup" | "fund" | "funded" | "rest" | "prepare" |
                       \* "sign" | "prepared" | "broadcast" | "sent" |
                       \* "confirm" |
                       \* "analyze" | "report" | "end"
  exited,              \* process.exit was called or main was left
  exitCode,            \* the process's exit code
  exitReason,          \* what ended the run
  mSenders,            \* senders.length
  mUnsigned,           \* unsignedTxs.length
  mCursor,             \* i of the signing loop, the batches started
  mSigned,             \* signedTxs.length
  mHashes,             \* sendResult.txHashes.length
  mReceipts,           \* confirmResult.receipts.length
  mAnalysis,           \* tpsAnalysis: "none" | "null" | "verified" | "mismatch"
  \* ---- createAndFundSenders: funding, balance polling, final check ----
  fCount,              \* count, the senders created (numbered from 0)
  fChainNonce,         \* the funder's mined transactions when funding starts
  fNonce,              \* the local nonce counter
  fTx,                 \* the funding transaction being signed
  fundingTxs,          \* [senderIdx, nonce] per signed funding transaction
  fPc,                 \* "idle" | "call" | "getNonce" | "sign" | "broadcast" |
                       \* "polling" | "sleep" | "final" | "distribute" |
                       \* "returned" | "threw"
  fBI,                 \* the broadcast loop's i
  fPost,               \* the current batch's promises: "pending" | "true" |
                       \* "false"
  fPosted,             \* senderIdx of every funding transaction posted
  broadcastSuccess,
  fAccepted,           \* senderIdx of the funding transactions the node took
  fMined,              \* senderIdx of the funding transactions mined
  funded,
  lastFunded,
  stableCount,
  fNow,                \* Date.now(), in poll intervals
  startWait,
  fFinalI,             \* the final check's position in senders
  fFinalSeen,          \* per sender, the final balance query: "positive" |
                       \* "zero" | "failed"
  fundedSenders,
  \* ---- analyzeBlockTPS (block inclusion check) ----
  anPc,                \* "idle" | "call" | "fetch" | "verified" | "returned" | "threw"
  anReceipts,          \* receipts: records of hash, status and blockNumber
  anClaimed,           \* txHashesWithMeta: the hashes the broadcast collected
  anChain,             \* the chain: per block number, the hashes the block lists
  blockNumbers,        \* the block numbers asked for
  anBlocks,            \* blocks: the answers of getBlock, a block or null
  anResult,            \* "none" | "null" | "analysis"
  verifiedTxCount,
  verifiedSuccessfulCount,
  totalBlockTxCount,
  ourTxCount,          \* mixed driver: claimed hashes seen in the blocks
  \* ---- analyzeBlockTPS (sample and full verification) ----
  vPc,                 \* "idle" | "start" | "sample_tx" | "sample_receipt" | "full" |
                       \* "finish" | "returned"
  verifyAll,           \* config.verifyAll
  vTxAnswers,          \* per receipt, what getTransaction answers
  vRcAnswers,          \* per receipt, what getTransactionReceipt answers
  vIncluded,           \* the counts the block-inclusion check of these inputs gives
  vBlockSpan,          \* lastBlock.timestamp - firstBlock.timestamp, in seconds
  sampleIndices,
  samplePos,           \* position of the sampling loop in sampleIndices
  sampleTx,            \* tx of the sample being checked
  sampleVerified,
  sampleResults,
  vNextIndex,          \* nextIndex of the verification worker pool
  fullVerifiedCount,
  fullVerifyErrors,
  vTally,              \* notFound, noReceipt, statusFailed, notMined, dataMismatch,
                       \* errorCount
  vwPc,                \* per worker: "idle" | "tx" | "receipt" | "done"
  vwIdx,               \* per worker: the index it claimed
  vwTx,                \* per worker: the tx it fetched
  vRun,                \* which call of analyzeBlockTPS on these inputs this is
  vFirst,              \* what the first call returned
  vResult,             \* what the current call returned
  \* ---- the choice of the sample indices ----
  pkReceipts,          \* receipts.length
  pkIndices,           \* sampleIndices
  pkPc                 \* where the choice stands

bvars == <<signedTxs, concurrentRequests, bPc, workersStarted, nextIndex, wPc,
           wIdx, successCount, errorCount, firstError, txHashes, errorTypes,
           errorExamples, rpcLog>>

cvars == <<trackedHashes, pending, receipts, cPc, checkBatch, query, now,
           startTime, mined, pollRounds, sleepCount>>

gvars == <<mixString, txMix, txCount, numSenders, contracts, gPc, chainNonce,
           nonces, unsignedTxs>>

avars == <<aPc, apPc, senderNonce, signedApprovals, txPool>>

kvars == <<clsMsg, clsCategory, clsPc>>

svars == <<sgUnsigned, sgI, sgResults, sgSigned, sgFailed, sgPc>>

mvars == <<mPc, exited, exitCode, exitReason, mSenders, mUnsigned, mCursor,
           mSigned, mHashes,
           mReceipts, mAnalysis>>

fvars == <<fCount, fChainNonce, fNonce, fTx, fundingTxs, fPc, fBI, fPost,
           fPosted, broadcastSuccess, fAccepted, fMined, funded, lastFunded,
           stableCount, fNow, startWait, fFinalI, fFinalSeen, fundedSenders>>

nvars == <<anPc, anReceipts, anClaimed, anChain, blockNumbers, anBlocks,
            anResult, verifiedTxCount, verifiedSuccessfulCount,
            totalBlockTxCount, ourTxCount>>

vvars == <<vPc, verifyAll, vTxAnswers, vRcAnswers, vIncluded, vBlockSpan,
            sampleIndices,
            samplePos, sampleTx, sampleVerified, sampleResults, vNextIndex,
            fullVerifiedCount, fullVerifyErrors, vTally, vwPc, vwIdx, vwTx,
            vRun, vFirst, vResult>>

pvars == <<pkReceipts, pkIndices, pkPc>>

vars == <<driver, bvars, cvars, gvars, avars, kvars, svars, mvars, fvars,
           nvars, vvars, pvars>>

\* what each component's steps leave alone
otherThanB == <<driver, cvars, gvars, avars, kvars, svars, mvars, fvars,
                 nvars, vvars, pvars>>
otherThanC == <<driver, bvars, gvars, avars, kvars, svars, mvars, fvars,
                 nvars, vvars, pvars>>
otherThanG == <<driver, bvars, cvars, avars, kvars, svars, mvars, fvars,
                 nvars, vvars, pvars>>
otherThanK == <<driver, bvars, cvars, gvars, avars, svars, mvars, fvars,
                 nvars, vvars, pvars>>
otherThanGA == <<driver, bvars, cvars, kvars, svars, mvars, fvars, nvars,
                  vvars, pvars>>
otherThanS == <<driver, bvars, cvars, gvars, avars, kvars, mvars, fvars,
                 nvars, vvars, pvars>>
otherThanM == <<driver, bvars, cvars, gvars, avars, kvars, svars, fvars,
                 nvars, vvars, pvars>>
otherThanF == <<driver, bvars, cvars, gvars, avars, kvars, svars, mvars,
                 nvars, vvars, pvars>>
otherThanFM == <<driver, bvars, cvars, gvars, avars, kvars, svars, nvars,
                  vvars, pvars>>
otherThanN == <<driver, bvars, cvars, gvars, avars, kvars, svars, mvars,
                 fvars, vvars, pvars>>
otherThanV == <<driver, bvars, cvars, gvars, avars, kvars, svars, mvars,
                 fvars, nvars, pvars>>
otherThanNV == <<driver, bvars, cvars, gvars, avars, kvars, svars, mvars,
                  fvars, pvars>>
otherThanP == <<driver, bvars, cvars, gvars, avars, kvars, svars, mvars,
                 fvars, nvars, vvars>>

---------------------------------------------------------------------------
(* Bounds of the model *)
MaxQueue == 3      \* longest envelope queue
MaxPool == 2       \* largest worker pool
MaxSkip == 1       \* leading descriptors lost to signing failures
MaxHashes == 3      \* most distinct hashes tracked
TimeoutTicks == 2   \* timeoutMs, in poll intervals
CheckBatchSize == 2 \* the mixed driver's slice(0, 100), scaled to MaxHashes
MaxLatency == 1     \* most ticks RPC latency adds beyond the timeout
MaxPart == 5        \* largest field of a --txMix string
MaxTxCount == 4     \* largest small txCount
MaxSenders == 3     \* most funded senders
MaxUnsigned == 4   \* most descriptors handed to signTransactions
SignBatchSize == 2 \* signBatchSize (100 in the code)
MaxCreated == 2    \* most senders created
FundBatchCap == 1  \* cap of the funding broadcast batch (200 in the code)
FundTimeoutTicks == 6  \* the poll loop's least timeout (30000 ms in the code)
MaxPollTicks == 1  \* most poll intervals one round of balance queries takes

Drivers == {"single", "mixed"}

Min(a, b) == IF a < b THEN a ELSE b

---------------------------------------------------------------------------
(* JavaScript values: a string is a sequence of characters *)
Undefined == [t |-> "undefined", s |-> <<>>]
Null == [t |-> "null", s |-> <<>>]
Str(chars) == [t |-> "str", s |-> chars]

\* JS truthiness of undefined / null / string
Truthy(v) == v.t = "str" /\ v.s # <<>>

\* a || b
OrElse(a, b) == IF Truthy(a) THEN a ELSE b

\* String.prototype.includes
Includes(s, pat) ==
  \E i \in 1..(Len(s) - Len(pat) + 1) : SubSeq(s, i, i + Len(pat) - 1) = pat

LowerChar(c) ==
  CASE c = "A" -> "a" [] c = "B" -> "b" [] c = "C" -> "c" [] c = "D" -> "d"
    [] c = "E" -> "e" [] c = "F" -> "f" [] c = "G" -> "g" [] c = "H" -> "h"
    [] c = "I" -> "i" [] c = "J" -> "j" [] c = "K" -> "k" [] c = "L" -> "l"
    [] c = "M" -> "m" [] c = "N" -> "n" [] c = "O" -> "o" [] c = "P" -> "p"
    [] c = "Q" -> "q" [] c = "R" -> "r" [] c = "S" -> "s" [] c = "T" -> "t"
    [] c = "U" -> "u" [] c = "V" -> "v" [] c = "W" -> "w" [] c = "X" -> "x"
    [] c = "Y" -> "y" [] c = "Z" -> "z" [] OTHER -> c

\* String.prototype.toLowerCase
ToLowerCase(s) == [i \in 1..Len(s) |-> LowerChar(s[i])]

\* String.prototype.slice(0, n)
Slice0(s, n) == SubSeq(s, 1, Min(n, Len(s)))

\* "max fee per gas less than block base fee"
PatMaxFee ==
  <<"m","a","x"," ","f","e","e"," ","p","e","r"," ","g","a","s"," ","l","e","s","s"," ","t","h","a","n"," ","b","l","o","c","k"," ","b","a","s","e"," ","f","e","e">>
\* "nonce too low"
PatNonceTooLow ==
  <<"n","o","n","c","e"," ","t","o","o"," ","l","o","w">>
\* "nonce too high"
PatNonceTooHigh ==
  <<"n","o","n","c","e"," ","t","o","o"," ","h","i","g","h">>
\* "already known"
PatAlreadyKnown ==
  <<"a","l","r","e","a","d","y"," ","k","n","o","w","n">>
\* "replacement transaction underpriced"
PatReplacement ==
  <<"r","e","p","l","a","c","e","m","e","n","t"," ","t","r","a","n","s","a","c","t","i","o","n"," ","u","n","d","e","r","p","r","i","c","e","d">>
\* "insufficient funds"
PatInsufficientFunds ==
  <<"i","n","s","u","f","f","i","c","i","e","n","t"," ","f","u","n","d","s">>
\* "intrinsic gas too low"
PatIntrinsicGas ==
  <<"i","n","t","r","i","n","s","i","c"," ","g","a","s"," ","t","o","o"," ","l","o","w">>
\* "timeout"
PatTimeout ==
  <<"t","i","m","e","o","u","t">>
\* "ETIMEDOUT"
PatETIMEDOUT ==
  <<"E","T","I","M","E","D","O","U","T">>
\* "connection"
PatConnection ==
  <<"c","o","n","n","e","c","t","i","o","n">>
\* "ECONNREFUSED"
PatECONNREFUSED ==
  <<"E","C","O","N","N","R","E","F","U","S","E","D">>
\* "execution reverted"
PatExecutionReverted ==
  <<"e","x","e","c","u","t","i","o","n"," ","r","e","v","e","r","t","e","d">>
\* 'unknown error', the single-type driver's default message
DefaultErrorSingle ==
  <<"u","n","k","n","o","w","n"," ","e","r","r","o","r">>
\* 'Unknown error', the mixed driver's default message
DefaultErrorMixed ==
  <<"U","n","k","n","o","w","n"," ","e","r","r","o","r">>
\* "Nonce too low", as a node reports it
MsgNonceTooLow ==
  <<"N","o","n","c","e"," ","t","o","o"," ","l","o","w">>
\* "fetch failed", the message of fetch's TypeError
MsgFetchFailed ==
  <<"f","e","t","c","h"," ","f","a","i","l","e","d">>

Categories ==
  {"unknown", "gas_price_too_low", "nonce_too_low", "nonce_too_high",
   "already_known", "replacement_underpriced", "insufficient_funds",
   "gas_too_low", "timeout", "connection_error", "execution_reverted", "other"}

\* categorizeError of the single-type driver
categorizeErrorSingle(errorMsg) ==
  IF ~Truthy(errorMsg) THEN "unknown"
  ELSE LET msg == ToLowerCase(errorMsg.s) IN
    IF Includes(msg, PatMaxFee) THEN "gas_price_too_low"
    ELSE IF Includes(msg, PatNonceTooLow) THEN "nonce_too_low"
    ELSE IF Includes(msg, PatNonceTooHigh) THEN "nonce_too_high"
    ELSE IF Includes(msg, PatAlreadyKnown) THEN "already_known"
    ELSE IF Includes(msg, PatReplacement) THEN "replacement_underpriced"
    ELSE IF Includes(msg, PatInsufficientFunds) THEN "insufficient_funds"
    ELSE IF Includes(msg, PatIntrinsicGas) THEN "gas_too_low"
    ELSE IF Includes(msg, PatTimeout) \/ Includes(msg, PatETIMEDOUT) THEN "timeout"
    ELSE IF Includes(msg, PatConnection) \/ Includes(msg, PatECONNREFUSED)
      THEN "connection_error"
    ELSE "other"

\* categorizeError of the mixed driver
categorizeErrorMixed(errorMsg) ==
  IF ~Truthy(errorMsg) THEN "unknown"
  ELSE LET msg == ToLowerCase(errorMsg.s) IN
    IF Includes(msg, PatMaxFee) THEN "gas_price_too_low"
    ELSE IF Includes(msg, PatNonceTooLow) THEN "nonce_too_low"
    ELSE IF Includes(msg, PatNonceTooHigh) THEN "nonce_too_high"
    ELSE IF Includes(msg, PatAlreadyKnown) THEN "already_known"
    ELSE IF Includes(msg, PatReplacement) THEN "replacement_underpriced"
    ELSE IF Includes(msg, PatInsufficientFunds) THEN "insufficient_funds"
    ELSE IF Includes(msg, PatIntrinsicGas) THEN "gas_too_low"
    ELSE IF Includes(msg, PatTimeout) \/ Includes(msg, PatETIMEDOUT) THEN "timeout"
    ELSE IF Includes(msg, PatConnection) \/ Includes(msg, PatECONNREFUSED)
      THEN "connection_error"
    ELSE IF Includes(msg, PatExecutionReverted) THEN "execution_reverted"
    ELSE "other"

categorizeError(d, errorMsg) ==
  IF d = "single" THEN categorizeErrorSingle(errorMsg)
  ELSE categorizeErrorMixed(errorMsg)


---------------------------------------------------------------------------
(* The state of a component that is not running *)

BroadcastIdle ==
  /\ signedTxs = <<>>
  /\ concurrentRequests = 0
  /\ bPc = "idle"
  /\ workersStarted = 0
  /\ nextIndex = 0
  /\ wPc = <<>>
  /\ wIdx = <<>>
  /\ successCount = 0
  /\ errorCount = 0
  /\ firstError = Null
  /\ txHashes = <<>>
  /\ errorTypes = [c \in Categories |-> 0]
  /\ errorExamples = [c \in Categories |-> Undefined]
  /\ rpcLog = <<>>

Hashes == 1..MaxHashes

ConfirmIdle ==
  /\ trackedHashes = <<>>
  /\ pending = <<>>
  /\ receipts = <<>>
  /\ cPc = "idle"
  /\ checkBatch = <<>>
  /\ query = [h \in Hashes |-> "none"]
  /\ now = 0
  /\ startTime = 0
  /\ mined = {}
  /\ pollRounds = 0
  /\ sleepCount = 0

\* CONFIG.txMix, also what parseTxMix returns for no string
DefaultTxMix == [ethTransfer |-> 100, tokenTransfer |-> 0, swap |-> 0, nan |-> FALSE]

NoContracts == [token |-> FALSE, weth |-> FALSE, router |-> FALSE]

GenIdle ==
  /\ mixString = <<>>
  /\ txMix = DefaultTxMix
  /\ txCount = 0
  /\ numSenders = 0
  /\ contracts = NoContracts
  /\ gPc = "idle"
  /\ chainNonce = <<>>
  /\ nonces = <<>>
  /\ unsignedTxs = <<>>

ApproveIdle ==
  /\ aPc = "idle"
  /\ apPc = <<>>
  /\ senderNonce = <<>>
  /\ signedApprovals = {}
  /\ txPool = {}

ClassifyIdle ==
  /\ clsMsg = Undefined
  /\ clsCategory = "none"
  /\ clsPc = "idle"

SignIdle ==
  /\ sgUnsigned = <<>>
  /\ sgI = 0
  /\ sgResults = <<>>
  /\ sgSigned = <<>>
  /\ sgFailed = {}
  /\ sgPc = "idle"

MainIdle ==
  /\ mPc = "idle"
  /\ exited = FALSE
  /\ exitCode = 0
  /\ exitReason = "none"
  /\ mSenders = 0
  /\ mUnsigned = 0
  /\ mCursor = 0
  /\ mSigned = 0
  /\ mHashes = 0
  /\ mReceipts = 0
  /\ mAnalysis = "none"

FundIdle ==
  /\ fCount = 0
  /\ fChainNonce = 0
  /\ fNonce = 0
  /\ fTx = Null
  /\ fundingTxs = <<>>
  /\ fPc = "idle"
  /\ fBI = 0
  /\ fPost = <<>>
  /\ fPosted = {}
  /\ broadcastSuccess = 0
  /\ fAccepted = {}
  /\ fMined = {}
  /\ funded = 0
  /\ lastFunded = 0
  /\ stableCount = 0
  /\ fNow = 0
  /\ startWait = 0
  /\ fFinalI = 0
  /\ fFinalSeen = <<>>
  /\ fundedSenders = <<>>

AnalyzeIdle ==
  /\ anPc = "idle"
  /\ anReceipts = <<>>
  /\ anClaimed = <<>>
  /\ anChain = <<>>
  /\ blockNumbers = <<>>
  /\ anBlocks = <<>>
  /\ anResult = "none"
  /\ verifiedTxCount = 0
  /\ verifiedSuccessfulCount = 0
  /\ totalBlockTxCount = 0
  /\ ourTxCount = 0

VerifyIdle ==
  /\ vPc = "idle"
  /\ verifyAll = FALSE
  /\ vTxAnswers = <<>>
  /\ vRcAnswers = <<>>
  /\ vIncluded = <<>>
  /\ vBlockSpan = 0
  /\ sampleIndices = <<>>
  /\ samplePos = 0
  /\ sampleTx = <<>>
  /\ sampleVerified = 0
  /\ sampleResults = <<>>
  /\ vNextIndex = 0
  /\ fullVerifiedCount = 0
  /\ fullVerifyErrors = 0
  /\ vTally = <<>>
  /\ vwPc = <<>>
  /\ vwIdx = <<>>
  /\ vwTx = <<>>
  /\ vRun = 0
  /\ vFirst = <<>>
  /\ vResult = <<>>

PickIdle ==
  /\ pkReceipts = 0
  /\ pkIndices = <<>>
  /\ pkPc = "idle"

---------------------------------------------------------------------------
(* fireAndForgetBroadcast: a pool of async workers racing one shared index *)

\* errorExamples.set(errorType, errorMsg.slice(0, 100)) in the single driver
ExampleLen == 100

\* the envelope produced by signing descriptor number `index` of two senders'
\* round-robin descriptors
Envelope(index) ==
  [index |-> index, expectedFrom |-> index % 2, nonce |-> index \div 2]

\* the hash the endpoint computes for a raw transaction it accepts
TxHash(env) == <<"0x", env.index>>

\* the JSON bodies the endpoint can answer a submission with: a hash, an
\* empty result, an error with a message, an error without one
RpcResponses(env) ==
  { [result |-> Str(TxHash(env)), errmsg |-> Undefined],
    [result |-> Str(<<>>), errmsg |-> Undefined],
    [result |-> Undefined, errmsg |-> Str(MsgNonceTooLow)],
    [result |-> Undefined, errmsg |-> Undefined] }

\* what a rejected fetch() or response.json() carries as err.message
ThrownMessages == {Str(MsgFetchFailed), Undefined}

\* if (result.result)
HasResult_Defined(resp) == resp.result.t = "str"
HasResult(resp) == Truthy(resp.result)

\* signedTxs[idx], the envelope a worker submits for the index it claimed
QueueAt_FromEnd(queue, idx) == queue[Len(queue) - idx]
QueueAt(queue, idx) == queue[idx + 1]

\* const idx = nextIndex++  (the value kept, and the value stored back)
AdvanceIndex_Lost(n) == n
AdvanceIndex(n) == n + 1

\* while (nextIndex < signedTxs.length)
QueueHasNext_Inclusive(n, len) == n <= len
QueueHasNext_UntilError(n, len) == n < len /\ errorCount = 0
QueueHasNext(n, len) == n < len

\* the worker's loop head up to its next await: claim an index and call
\* fetch(), or leave the loop
WorkerLoop(w) ==
  IF QueueHasNext(nextIndex, Len(signedTxs))
  THEN /\ wIdx' = [wIdx EXCEPT ![w] = nextIndex]
       /\ nextIndex' = AdvanceIndex(nextIndex)
       /\ wPc' = [wPc EXCEPT ![w] = "fetch"]
       /\ rpcLog' = Append(rpcLog, [w |-> w, idx |-> nextIndex])
  ELSE /\ wPc' = [wPc EXCEPT ![w] = "done"]
       /\ UNCHANGED <<wIdx, nextIndex, rpcLog>>

\* errorTypes.set(errorType, (errorTypes.get(errorType) || 0) + 1)
BumpTally_Set(tally, type) == [tally EXCEPT ![type] = 1]
BumpTally(tally, type) == [tally EXCEPT ![type] = @ + 1]

\* the else branch of if (result.result)
RecordErrorResponse(resp) ==
  LET dflt == IF driver = "single" THEN Str(DefaultErrorSingle)
              ELSE Str(DefaultErrorMixed)
      errorMsg == OrElse(resp.errmsg, dflt)
      errorType == categorizeError(driver, errorMsg)
      example == IF driver = "single" THEN Str(Slice0(errorMsg.s, ExampleLen))
                 ELSE errorMsg
  IN /\ errorCount' = errorCount + 1
     /\ UNCHANGED <<successCount, txHashes>>
     /\ firstError' = IF ~Truthy(firstError) THEN errorMsg ELSE firstError
     /\ errorTypes' = BumpTally(errorTypes, errorType)
     /\ errorExamples' = IF errorExamples[errorType] = Undefined
                         THEN [errorExamples EXCEPT ![errorType] = example]
                         ELSE errorExamples

\* the catch block
RecordThrown(message) ==
  /\ errorCount' = errorCount + 1
  /\ UNCHANGED <<successCount, txHashes>>
  /\ IF driver = "single"
     THEN LET errorMsg == OrElse(message, Str(DefaultErrorSingle))
              errorType == categorizeError(driver, errorMsg)
          IN /\ firstError' = IF ~Truthy(firstError) THEN errorMsg ELSE firstError
             /\ errorTypes' = BumpTally(errorTypes, errorType)
             /\ errorExamples' =
                  IF errorExamples[errorType] = Undefined
                  THEN [errorExamples EXCEPT
                          ![errorType] = Str(Slice0(errorMsg.s, ExampleLen))]
                  ELSE errorExamples
     ELSE LET errorType == categorizeError(driver, message)
          IN /\ firstError' = IF ~Truthy(firstError) THEN message ELSE firstError
             /\ errorTypes' = BumpTally(errorTypes, errorType)
             /\ UNCHANGED errorExamples

\* the if branch of if (result.result)
RecordSuccess(w, resp) ==
  LET env == QueueAt(signedTxs, wIdx[w])
  IN /\ successCount' = successCount + 1
     /\ txHashes' = Append(txHashes,
                      [hash |-> resp.result.s, index |-> env.index,
                       expectedFrom |-> env.expectedFrom])
     /\ UNCHANGED <<errorCount, firstError, errorTypes, errorExamples>>

\* i < config.concurrentRequests, the condition of the loop that starts the
\* workers
PoolHasRoom_OneMore(started, pool) == started <= pool
PoolHasRoom(started, pool) == started < pool

\* for (let i = 0; i < config.concurrentRequests; i++) workers.push(worker())
\* each worker() call runs synchronously up to its first await
StartWorker ==
  /\ bPc = "init"
  /\ PoolHasRoom(workersStarted, concurrentRequests)
  /\ workersStarted' = workersStarted + 1
  /\ WorkerLoop(workersStarted + 1)
  /\ UNCHANGED otherThanB
  /\ UNCHANGED <<signedTxs, concurrentRequests, bPc, successCount,
                 errorCount, firstError, txHashes, errorTypes, errorExamples>>

\* await Promise.all(workers): the caller yields to the event loop
AwaitAll ==
  /\ bPc = "init"
  /\ workersStarted = concurrentRequests
  /\ bPc' = "awaitAll"
  /\ UNCHANGED otherThanB
  /\ UNCHANGED <<signedTxs, concurrentRequests, workersStarted,
                 nextIndex, wPc, wIdx, successCount, errorCount, firstError,
                 txHashes, errorTypes, errorExamples, rpcLog>>

\* await fetch(...) resolves with a response
FetchResolve(w) ==
  /\ bPc = "awaitAll"
  /\ wPc[w] = "fetch"
  /\ wPc' = [wPc EXCEPT ![w] = "json"]
  /\ UNCHANGED otherThanB
  /\ UNCHANGED <<signedTxs, concurrentRequests, bPc, workersStarted,
                 nextIndex, wIdx, successCount, errorCount, firstError,
                 txHashes, errorTypes, errorExamples, rpcLog>>

\* await fetch(...) rejects: catch, then the loop head
FetchReject(w) ==
  /\ bPc = "awaitAll"
  /\ wPc[w] = "fetch"
  /\ \E m \in ThrownMessages : RecordThrown(m)
  /\ WorkerLoop(w)
  /\ UNCHANGED otherThanB
  /\ UNCHANGED <<signedTxs, concurrentRequests, bPc, workersStarted>>

\* await response.json() resolves: record the outcome, then the loop head
JsonResolve(w) ==
  /\ bPc = "awaitAll"
  /\ wPc[w] = "json"
  /\ \E resp \in RpcResponses(QueueAt(signedTxs, wIdx[w])) :
       IF HasResult(resp) THEN RecordSuccess(w, resp)
                          ELSE RecordErrorResponse(resp)
  /\ WorkerLoop(w)
  /\ UNCHANGED otherThanB
  /\ UNCHANGED <<signedTxs, concurrentRequests, bPc, workersStarted>>

\* await response.json() rejects: catch, then the loop head
JsonReject(w) ==
  /\ bPc = "awaitAll"
  /\ wPc[w] = "json"
  /\ \E m \in ThrownMessages : RecordThrown(m)
  /\ WorkerLoop(w)
  /\ UNCHANGED otherThanB
  /\ UNCHANGED <<signedTxs, concurrentRequests, bPc, workersStarted>>

\* what await Promise.all(workers) waits for: every worker's promise
\* fulfilled, which is every worker out of its loop (a worker never rejects,
\* its try/catch covers both awaits)
AllWorkersSettled_First ==
  \E w \in 1..concurrentRequests : wPc[w] = "done"
AllWorkersSettled ==
  \A w \in 1..concurrentRequests : wPc[w] = "done"

\* Promise.all(workers) resolves once every worker has left its loop
BroadcastReturn ==
  /\ bPc = "awaitAll"
  /\ AllWorkersSettled
  /\ bPc' = "returned"
  /\ UNCHANGED otherThanB
  /\ UNCHANGED <<signedTxs, concurrentRequests, workersStarted,
                 nextIndex, wPc, wIdx, successCount, errorCount, firstError,
                 txHashes, errorTypes, errorExamples, rpcLog>>

\* for (const [type, count] of errorTypes) errorTypesObj[type] = count: the
\* returned object has the keys the Map was given
ErrorTypesObj ==
  [c \in {k \in Categories : errorTypes[k] > 0} |-> errorTypes[c]]

BroadcastInit ==
  /\ driver \in Drivers
  /\ \E n \in 0..MaxQueue, skip \in 0..MaxSkip :
       signedTxs = [i \in 1..n |-> Envelope(i - 1 + skip)]
  /\ concurrentRequests \in 0..MaxPool
  /\ bPc = "init"
  /\ workersStarted = 0
  /\ nextIndex = 0
  /\ wPc = [w \in 1..concurrentRequests |-> "idle"]
  /\ wIdx = [w \in 1..concurrentRequests |-> -1]
  /\ successCount = 0
  /\ errorCount = 0
  /\ firstError = Null
  /\ txHashes = <<>>
  /\ errorTypes = [c \in Categories |-> 0]
  /\ errorExamples = [c \in Categories |-> Undefined]
  /\ rpcLog = <<>>
  /\ ConfirmIdle
  /\ GenIdle
  /\ ApproveIdle
  /\ ClassifyIdle
  /\ SignIdle
  /\ MainIdle
  /\ FundIdle
  /\ AnalyzeIdle
  /\ VerifyIdle
  /\ PickIdle

BroadcastNext ==
  \/ StartWorker
  \/ AwaitAll
  \/ \E w \in 1..concurrentRequests : FetchResolve(w)
  \/ \E w \in 1..concurrentRequests : FetchReject(w)
  \/ \E w \in 1..concurrentRequests : JsonResolve(w)
  \/ \E w \in 1..concurrentRequests : JsonReject(w)
  \/ BroadcastReturn

SpecBroadcast == BroadcastInit /\ [][BroadcastNext]_vars

---------------------------------------------------------------------------
(* Claims about the broadcaster *)

SubmissionsOf(k) == {i \in 1..Len(rpcLog) : rpcLog[i].idx = k}

\* C1: no queue index is claimed by two workers; every index 0..N-1 is
\* submitted to the endpoint at most once, and exactly once when the pool
\* size is at least 1 and the broadcast has returned.
C1_EachIndexOnce ==
  /\ \A i \in 1..Len(rpcLog) : rpcLog[i].idx \in 0..(Len(signedTxs) - 1)
  /\ \A k \in 0..(Len(signedTxs) - 1) : Cardinality(SubmissionsOf(k)) <= 1
  /\ (bPc = "returned" /\ concurrentRequests >= 1) =>
       \A k \in 0..(Len(signedTxs) - 1) : Cardinality(SubmissionsOf(k)) = 1

\* two workers have shared a queue of three and the broadcast has returned
C1_Witness ==
  /\ bPc = "returned"
  /\ Len(signedTxs) >= 3
  /\ \E i, j \in 1..Len(rpcLog) : rpcLog[i].w # rpcLog[j].w

\* C2: when the broadcast returns (pool size >= 1), successCount +
\* errorCount = N, txHashes has successCount entries, and every entry
\* carries the non-empty hash the endpoint returned for its envelope.
C2_CountsAddUp ==
  (bPc = "returned" /\ concurrentRequests >= 1) =>
    /\ successCount + errorCount = Len(signedTxs)
    /\ Len(txHashes) = successCount
    /\ \A i \in 1..Len(txHashes) :
         /\ txHashes[i].hash # <<>>
         /\ \E k \in 1..Len(signedTxs) :
              /\ signedTxs[k].index = txHashes[i].index
              /\ txHashes[i].hash = TxHash(signedTxs[k])
              /\ txHashes[i].expectedFrom = signedTxs[k].expectedFrom

\* a returned broadcast with both a success and a failure
C2_Witness ==
  /\ bPc = "returned"
  /\ successCount >= 1
  /\ errorCount >= 1
  /\ Len(signedTxs) >= 2


---------------------------------------------------------------------------
(* waitForConfirmations: poll for receipts until none is pending or the    *)
(* timeout has elapsed                                                     *)

MaxTime == TimeoutTicks + MaxLatency

\* new Set(list): first occurrences, in insertion order
Dedup_Keep(list) == list
RECURSIVE Dedup(_)
Dedup(list) ==
  IF list = <<>> THEN <<>>
  ELSE LET init == Dedup(SubSeq(list, 1, Len(list) - 1))
           last == list[Len(list)]
       IN IF \E i \in 1..Len(init) : init[i] = last THEN init
          ELSE Append(init, last)

\* Set.prototype.delete
SetDelete_Keep(set, h) == set
SetDelete(set, h) == SelectSeq(set, LAMBDA x : x # h)

Receipt(h) == [hash |-> h]

\* while (pending.size > 0 && Date.now() - startTime < timeoutMs)
KeepPolling_NoTimeout(pend, t, start) == Len(pend) > 0
KeepPolling(pend, t, start) == Len(pend) > 0 /\ t - start < TimeoutTicks

\* the hashes one poll round queries
\* single: Array.from(pending)    mixed: Array.from(pending).slice(0, 100)
BatchOf(pend) ==
  IF driver = "single" THEN pend
  ELSE SubSeq(pend, 1, Min(CheckBatchSize, Len(pend)))

\* the loop head with pending set pend at time t (startTime is start): start a poll round (one
\* getTransactionReceipt per hash of the batch), or leave the loop and return
LoopHead(pend, t, start) ==
  IF KeepPolling(pend, t, start)
  THEN /\ cPc' = "polling"
       /\ checkBatch' = BatchOf(pend)
       /\ query' = [h \in DOMAIN query |->
                      IF \E i \in 1..Len(BatchOf(pend)) : BatchOf(pend)[i] = h
                      THEN "inflight" ELSE "none"]
       /\ pollRounds' = pollRounds + 1
  ELSE /\ cPc' = "returned"
       /\ checkBatch' = <<>>
       /\ query' = [h \in DOMAIN query |-> "none"]
       /\ pollRounds' = pollRounds

\* entry: startTime, receipts, pending, then the loop head
ConfirmEnter ==
  /\ cPc = "entry"
  /\ startTime' = now
  /\ receipts' = <<>>
  /\ pending' = Dedup(trackedHashes)
  /\ LoopHead(pending', now, now)
  /\ UNCHANGED <<trackedHashes, now, mined, sleepCount>>
  /\ UNCHANGED otherThanC

\* one getTransactionReceipt(hash) settles: a receipt when the chain has
\* one, null when it has none, or a rejection, which the catch turns into
\* null.  The mixed driver deletes the hash from pending here.
QueryResolve(h) ==
  /\ cPc = "polling"
  /\ query[h] = "inflight"
  /\ \E outcome \in (IF h \in mined THEN {"receipt"} ELSE {"null"}) \cup {"throw"} :
       LET result == IF outcome = "receipt" THEN "receipt" ELSE "null"
       IN /\ query' = [query EXCEPT ![h] = result]
          /\ pending' = IF driver = "mixed" /\ result = "receipt"
                        THEN SetDelete(pending, h) ELSE pending
  /\ UNCHANGED <<trackedHashes, receipts, cPc, checkBatch, now, startTime,
                 mined, pollRounds, sleepCount>>
  /\ UNCHANGED otherThanC

\* the receipts of a finished round, in batch order
RoundReceipts == SelectSeq(checkBatch, LAMBDA h : query[h] = "receipt")

\* pending after the single driver's result loop
RECURSIVE DeleteAll(_, _)
DeleteAll(set, hs) ==
  IF hs = <<>> THEN set ELSE DeleteAll(SetDelete(set, hs[1]), Tail(hs))

\* Promise.all settles: collect the receipts; sleep when something is still
\* pending, else on to the loop head
PollEnd ==
  /\ cPc = "polling"
  /\ \A i \in 1..Len(checkBatch) : query[checkBatch[i]] # "inflight"
  /\ receipts' = receipts \o [i \in 1..Len(RoundReceipts) |-> Receipt(RoundReceipts[i])]
  /\ pending' = IF driver = "single" THEN DeleteAll(pending, RoundReceipts)
                ELSE pending
  /\ IF Len(pending') > 0
     THEN /\ cPc' = "sleeping"
          /\ sleepCount' = sleepCount + 1
          /\ UNCHANGED <<checkBatch, query, pollRounds>>
     ELSE /\ LoopHead(pending', now, startTime)
          /\ sleepCount' = sleepCount
  /\ UNCHANGED <<trackedHashes, now, startTime, mined>>
  /\ UNCHANGED otherThanC

\* await sleep(...): one poll interval passes, then the loop head
SleepEnd ==
  /\ cPc = "sleeping"
  /\ now' = now + 1
  /\ LoopHead(pending, now', startTime)
  /\ UNCHANGED <<trackedHashes, pending, receipts, startTime, mined, sleepCount>>
  /\ UNCHANGED otherThanC

\* time passes while a poll round is in flight
Tick ==
  /\ cPc = "polling"
  /\ now < MaxTime
  /\ now' = now + 1
  /\ UNCHANGED <<trackedHashes, pending, receipts, cPc, checkBatch, query,
                 startTime, mined, pollRounds, sleepCount>>
  /\ UNCHANGED otherThanC

\* the chain includes a transaction: its receipt exists from now on
Mine(h) ==
  /\ cPc \in {"polling", "sleeping"}
  /\ h \notin mined
  /\ mined' = mined \cup {h}
  /\ UNCHANGED <<trackedHashes, pending, receipts, cPc, checkBatch, query, now,
                 startTime, pollRounds, sleepCount>>
  /\ UNCHANGED otherThanC

ConfirmInit ==
  /\ driver \in Drivers
  /\ \E k \in 0..MaxHashes, dup \in BOOLEAN :
       trackedHashes = [i \in 1..k |-> i] \o (IF dup /\ k > 0 THEN <<1>> ELSE <<>>)
  /\ pending = <<>>
  /\ receipts = <<>>
  /\ cPc = "entry"
  /\ checkBatch = <<>>
  /\ query = [h \in Hashes |-> "none"]
  /\ now = 0
  /\ startTime = 0
  /\ mined \in SUBSET {h \in Hashes : \E i \in 1..Len(trackedHashes) : trackedHashes[i] = h}
  /\ pollRounds = 0
  /\ sleepCount = 0
  /\ BroadcastIdle
  /\ GenIdle
  /\ ApproveIdle
  /\ ClassifyIdle
  /\ SignIdle
  /\ MainIdle
  /\ FundIdle
  /\ AnalyzeIdle
  /\ VerifyIdle
  /\ PickIdle

ConfirmNext ==
  \/ ConfirmEnter
  \/ \E h \in Hashes : QueryResolve(h)
  \/ PollEnd
  \/ SleepEnd
  \/ Tick
  \/ \E h \in Hashes : Mine(h)

\* every RPC call returns and every timer fires: a step that can be taken
\* is eventually taken
SpecConfirm == ConfirmInit /\ [][ConfirmNext]_vars /\ WF_vars(ConfirmNext)

---------------------------------------------------------------------------
(* Claims about the confirmation tracker *)

TrackedSet == {trackedHashes[i] : i \in 1..Len(trackedHashes)}

ReceiptsOf(h) == {i \in 1..Len(receipts) : receipts[i].hash = h}

\* C5: waitForConfirmations terminates: it returns in every run; it starts
\* no poll round once the timeout has elapsed; when it returns with hashes
\* still pending the timeout has elapsed, and what it returns are the
\* receipts the endpoint gave (none when the endpoint never yields one).
C5_TerminatesAtTimeout ==
  /\ <>(cPc = "returned")
  /\ [][pollRounds' > pollRounds => now' - startTime' < TimeoutTicks]_vars
  /\ [](cPc = "returned" =>
          /\ pending # <<>> => now - startTime >= TimeoutTicks
          /\ \A i \in 1..Len(receipts) : receipts[i].hash \in mined
          /\ mined = {} => receipts = <<>>)

\* the endpoint never yielded a receipt and the call returned at the timeout
C5_Witness ==
  /\ cPc = "returned"
  /\ Len(pending) >= 2
  /\ mined = {}
  /\ receipts = <<>>
  /\ pollRounds >= 2

\* C6: at return the pending set is empty exactly when the endpoint has
\* returned a receipt for every tracked hash, and then there is exactly one
\* receipt per distinct tracked hash; once the pending set is empty no
\* further poll round and no further sleep is started.
C6_FullSetThenStop ==
  /\ [](cPc = "returned" =>
          /\ pending = <<>> <=> \A h \in TrackedSet : ReceiptsOf(h) # {}
          /\ pending = <<>> =>
               /\ \A h \in TrackedSet : Cardinality(ReceiptsOf(h)) = 1
               /\ Len(receipts) = Cardinality(TrackedSet))
  /\ [][(cPc # "entry" /\ pending = <<>>) =>
          (pollRounds' = pollRounds /\ sleepCount' = sleepCount)]_vars

\* every receipt arrived, over at least two poll rounds, for a hash list
\* that names one hash twice
C6_Witness ==
  /\ cPc = "returned"
  /\ pending = <<>>
  /\ Len(receipts) >= 3
  /\ Len(trackedHashes) > Len(receipts)
  /\ pollRounds >= 2

---------------------------------------------------------------------------
(* parseTxMix, setupContracts, generatePayload (mixed driver) and          *)
(* prepareAndSignTransactions up to its unsigned descriptors (single       *)
(* driver)                                                                 *)

AllContracts == [token |-> TRUE, weth |-> TRUE, router |-> TRUE]

\* Math.round((x / total) * 100) for integers x >= 0, total > 0: halves round
\* up.  (The double-precision quotient rounds as the exact one for every
\* total below 40, which covers the mix fields of this model.)
RoundPercent(x, total) == (200 * x + total) \div (2 * total)

\* Math.floor(a * b / 100) for a, b >= 0
FloorPercent(a, b) == (a * b) \div 100

\* Math.ceil(a / b) for a >= 0, b > 0
CeilDiv(a, b) == (a + b - 1) \div b

\* const [eth = 100, token = 0, swap = 0] = parts
Field(parts, i, dflt) == IF Len(parts) >= i THEN parts[i] ELSE dflt

\* parseTxMix.  A zero total makes every percentage 0 / 0 = NaN (nan).
parseTxMix(str) ==
  IF str = <<>> THEN DefaultTxMix
  ELSE LET eth == Field(str, 1, 100)
           token == Field(str, 2, 0)
           swap == Field(str, 3, 0)
           total == eth + token + swap
       IN IF total = 0
          THEN [ethTransfer |-> 0, tokenTransfer |-> 0, swap |-> 0, nan |-> TRUE]
          ELSE [ethTransfer |-> RoundPercent(eth, total),
                tokenTransfer |-> RoundPercent(token, total),
                swap |-> RoundPercent(swap, total),
                nan |-> FALSE]

\* getRequiredContracts (NaN > 0 is false)
getRequiredContracts(mix) ==
  [needsToken |-> ~mix.nan /\ (mix.tokenTransfer > 0 \/ mix.swap > 0),
   needsUniswap |-> ~mix.nan /\ mix.swap > 0]

\* setupContracts, every deployment succeeding
setupContracts(mix, given) ==
  LET req == getRequiredContracts(mix) IN
  IF ~req.needsToken /\ ~req.needsUniswap THEN given
  ELSE IF given.token /\ (~req.needsUniswap \/ (given.weth /\ given.router))
  THEN given
  ELSE LET withToken == IF req.needsToken /\ ~given.token
                        THEN [given EXCEPT !.token = TRUE] ELSE given
       IN IF req.needsUniswap /\ ~withToken.router
          THEN [withToken EXCEPT !.weth = TRUE, !.router = TRUE]
          ELSE withToken

\* ethCount, tokenCount, swapCount of generatePayload; all NaN for a NaN mix
TypeCounts(count, mix) ==
  LET ethCount == FloorPercent(count, mix.ethTransfer)
      tokenCount == FloorPercent(count, mix.tokenTransfer)
  IN [ethCount |-> ethCount, tokenCount |-> tokenCount,
      swapCount |-> count - ethCount - tokenCount, nan |-> mix.nan]

\* the two validation throws of generatePayload
MissingContracts(counts, c) ==
  /\ ~counts.nan
  /\ \/ counts.tokenCount > 0 /\ ~c.token
     \/ counts.swapCount > 0 /\ (~c.router \/ ~c.weth \/ ~c.token)

\* one pass of the while loop that fills txAssignments: pass r (from 1) finds
\* xRemaining > 0 exactly when the x count is at least r
Pass_NoSwap(r, ethCount, tokenCount, swapCount) ==
  (IF ethCount >= r THEN <<"eth_transfer">> ELSE <<>>)
  \o (IF tokenCount >= r THEN <<"token_transfer">> ELSE <<>>)
Pass(r, ethCount, tokenCount, swapCount) ==
  (IF ethCount >= r THEN <<"eth_transfer">> ELSE <<>>)
  \o (IF tokenCount >= r THEN <<"token_transfer">> ELSE <<>>)
  \o (IF swapCount >= r THEN <<"swap">> ELSE <<>>)

Max(a, b) == IF a > b THEN a ELSE b

\* passes lo..hi of the while loop, in order
RECURSIVE Passes(_, _, _, _, _)
Passes(lo, hi, ethCount, tokenCount, swapCount) ==
  IF lo > hi THEN <<>>
  ELSE IF lo = hi THEN Pass(lo, ethCount, tokenCount, swapCount)
  ELSE LET mid == (lo + hi) \div 2
       IN Passes(lo, mid, ethCount, tokenCount, swapCount)
          \o Passes(mid + 1, hi, ethCount, tokenCount, swapCount)

\* the while loop runs until no count has anything remaining
Interleave(ethCount, tokenCount, swapCount) ==
  Passes(1, Max(ethCount, Max(tokenCount, swapCount)),
         ethCount, tokenCount, swapCount)

txAssignments(counts) ==
  IF counts.nan THEN <<>>
  ELSE Interleave(counts.ethCount, counts.tokenCount, counts.swapCount)

\* senderNonces.set(sender.address, nonce + 1); nonce++ in the single driver
NextNonce_Same(n) == n
NextNonce(n) == n + 1

\* const senderIdx = i % senders.length
SenderOf(i, n) == i % n

\* iterations lo..hi (indices from 0) of the for loop over txAssignments:
\* descriptor i goes to sender i % n with that sender's next local nonce.
\* Yields the descriptors and the senderNonces map after them.
RECURSIVE BuildRange(_, _, _, _, _)
BuildRange(assignments, lo, hi, n, senderNonces) ==
  IF lo > hi THEN [txs |-> <<>>, senderNonces |-> senderNonces]
  ELSE IF lo = hi
  THEN LET senderIdx == SenderOf(lo, n)
           nonce == senderNonces[senderIdx]
       IN [txs |-> <<[sender |-> senderIdx, nonce |-> nonce, index |-> lo,
                      txType |-> assignments[lo + 1]]>>,
           senderNonces |-> [senderNonces EXCEPT ![senderIdx] = NextNonce(nonce)]]
  ELSE LET mid == (lo + hi) \div 2
           first == BuildRange(assignments, lo, mid, n, senderNonces)
           rest == BuildRange(assignments, mid + 1, hi, n, first.senderNonces)
       IN [txs |-> first.txs \o rest.txs, senderNonces |-> rest.senderNonces]

BuildUnsigned(assignments, n, senderNonces) ==
  BuildRange(assignments, 0, Len(assignments) - 1, n, senderNonces).txs

\* iterations lo..hi of the single driver's inner loop for one sender, the
\* first of them with local nonce `nonce` and global index txIndex
RECURSIVE PrepareRange(_, _, _, _, _)
PrepareRange(senderIdx, lo, hi, nonce, txIndex) ==
  IF lo > hi THEN [txs |-> <<>>, nonce |-> nonce]
  ELSE IF lo = hi
  THEN [txs |-> <<[sender |-> senderIdx, nonce |-> nonce, index |-> txIndex]>>,
        nonce |-> NextNonce(nonce)]
  ELSE LET mid == (lo + hi) \div 2
           first == PrepareRange(senderIdx, lo, mid, nonce, txIndex)
           rest == PrepareRange(senderIdx, mid + 1, hi, first.nonce,
                                txIndex + (mid - lo + 1))
       IN [txs |-> first.txs \o rest.txs, nonce |-> rest.nonce]

\* the single driver's outer loop (txIndex is Len(acc)); the inner loop runs
\* while i < txsForThisSender && txIndex < txCount
RECURSIVE PrepareAll(_, _, _)
PrepareAll(senderIdx, txPerSender, acc) ==
  IF ~(senderIdx < numSenders /\ Len(acc) < txCount) THEN acc
  ELSE LET txsForThisSender == Min(txPerSender, txCount - Len(acc))
       IN PrepareAll(senderIdx + 1, txPerSender,
            acc \o PrepareRange(senderIdx, 0, txsForThisSender - 1,
                                nonces[senderIdx], Len(acc)).txs)

\* the accounts createRandom() makes have mined nothing
FreshNonces(n) == [s \in 0..(n - 1) |-> 0]

\* the condition on the router-approval phase of createAndFundSenders
\* (NaN > 0 is false)
ApprovalsNeeded(mix, c, n) == ~mix.nan /\ mix.swap > 0 /\ c.router /\ n > 0

\* parseArgs: config.txMix = parseTxMix(value) (the single driver has no mix)
ParseArgs ==
  /\ gPc = "args"
  /\ txMix' = IF driver = "mixed" THEN parseTxMix(mixString) ELSE txMix
  /\ gPc' = IF driver = "mixed" THEN "setup" ELSE "fund"
  /\ UNCHANGED <<mixString, txCount, numSenders, contracts, chainNonce, nonces,
                 unsignedTxs>>
  /\ UNCHANGED otherThanG

\* config.contracts = await setupContracts(...)
SetupContracts ==
  /\ gPc = "setup"
  /\ contracts' = setupContracts(txMix, contracts)
  /\ gPc' = "fund"
  /\ UNCHANGED <<mixString, txMix, txCount, numSenders, chainNonce, nonces,
                 unsignedTxs>>
  /\ UNCHANGED otherThanG

\* what an account has mined when the senders are handed over: nothing, or
\* its router approval
NonceAnswers == {0, 1}

\* createAndFundSenders and the pause after it, by their effect on the
\* senders' accounts: the only transaction a sender itself sends is its router
\* approval (mixed driver, when the mix has swaps), mined by now or not
CreateAndFundSenders ==
  /\ gPc = "fund"
  /\ aPc = "idle"
  /\ chainNonce' \in [0..(numSenders - 1) ->
        IF driver = "mixed" /\ ApprovalsNeeded(txMix, contracts, numSenders)
        THEN NonceAnswers ELSE {0}]
  /\ gPc' = "generate"
  /\ UNCHANGED <<mixString, txMix, txCount, numSenders, contracts, nonces,
                 unsignedTxs>>
  /\ UNCHANGED otherThanG

\* generatePayload up to await Promise.all(noncePromises): the counts, the
\* validation, the getNonce() calls
GenerateStart ==
  /\ gPc = "generate"
  /\ driver = "mixed"
  /\ gPc' = IF MissingContracts(TypeCounts(txCount, txMix), contracts)
            THEN "threw" ELSE "nonces"
  /\ UNCHANGED <<mixString, txMix, txCount, numSenders, contracts, chainNonce,
                 nonces, unsignedTxs>>
  /\ UNCHANGED otherThanG

\* prepareAndSignTransactions (single driver) up to await Promise.all
PrepareStart ==
  /\ gPc = "generate"
  /\ driver = "single"
  /\ gPc' = "nonces"
  /\ UNCHANGED <<mixString, txMix, txCount, numSenders, contracts, chainNonce,
                 nonces, unsignedTxs>>
  /\ UNCHANGED otherThanG

\* Promise.all(noncePromises) settles: getNonce() counts the mined
\* transactions of the account (block tag "latest").  Next is
\* await provider.getFeeData().
NoncesResolve ==
  /\ gPc = "nonces"
  /\ nonces' = chainNonce
  /\ gPc' = "fee"
  /\ UNCHANGED <<mixString, txMix, txCount, numSenders, contracts, chainNonce,
                 unsignedTxs>>
  /\ UNCHANGED otherThanG

\* generatePayload from getFeeData's answer to its return
BuildPayload ==
  /\ gPc = "fee"
  /\ driver = "mixed"
  /\ unsignedTxs' = BuildUnsigned(txAssignments(TypeCounts(txCount, txMix)),
                                  numSenders, nonces)
  /\ gPc' = "built"
  /\ UNCHANGED <<mixString, txMix, txCount, numSenders, contracts, chainNonce,
                 nonces>>
  /\ UNCHANGED otherThanG

\* prepareAndSignTransactions (single driver) from getFeeData's answer to
\* the end of its descriptor loops
BuildPrepared ==
  /\ gPc = "fee"
  /\ driver = "single"
  /\ unsignedTxs' = PrepareAll(0, CeilDiv(txCount, numSenders), <<>>)
  /\ gPc' = "built"
  /\ UNCHANGED <<mixString, txMix, txCount, numSenders, contracts, chainNonce,
                 nonces>>
  /\ UNCHANGED otherThanG

MixStrings == UNION {[1..n -> 0..MaxPart] : n \in 0..3}

\* a few small counts, and the first one a hundredth of which is a whole
\* transaction
TxCounts == (0..MaxTxCount) \cup {100}

GenInit ==
  /\ driver \in Drivers
  /\ mixString \in (IF driver = "mixed" THEN MixStrings ELSE {<<>>})
  /\ txMix = DefaultTxMix
  /\ txCount \in TxCounts
  /\ numSenders \in 1..MaxSenders
  /\ contracts \in (IF driver = "mixed" THEN {NoContracts, AllContracts}
                    ELSE {NoContracts})
  /\ gPc = "args"
  /\ chainNonce = FreshNonces(numSenders)
  /\ nonces = <<>>
  /\ unsignedTxs = <<>>
  /\ BroadcastIdle
  /\ ConfirmIdle
  /\ ApproveIdle
  /\ ClassifyIdle
  /\ SignIdle
  /\ MainIdle
  /\ FundIdle
  /\ AnalyzeIdle
  /\ VerifyIdle
  /\ PickIdle

GenNext ==
  \/ ParseArgs
  \/ SetupContracts
  \/ CreateAndFundSenders
  \/ GenerateStart
  \/ PrepareStart
  \/ NoncesResolve
  \/ BuildPayload
  \/ BuildPrepared

SpecGen == GenInit /\ [][GenNext]_vars

---------------------------------------------------------------------------
(* Claims about the generated descriptors *)

Senders == 0..(numSenders - 1)

\* the descriptors of sender s, in sequence order
DescriptorsOf(s) ==
  LET OfSender(d) == d.sender = s IN SelectSeq(unsignedTxs, OfSender)

\* C3: in both drivers the descriptors are built in sequence-index order, and
\* the nonces of each sender's descriptors, in that order, are n0, n0+1, ...,
\* n0+k-1, where n0 is what the sender's one getNonce() query returned.
C3_NoncesContiguous ==
  gPc = "built" =>
    /\ \A i \in 1..Len(unsignedTxs) : unsignedTxs[i].index = i - 1
    /\ \A s \in Senders :
         \A j \in 1..Len(DescriptorsOf(s)) :
           DescriptorsOf(s)[j].nonce = nonces[s] + (j - 1)

\* C3 happens: two senders, one of them starting from a non-zero nonce, each
\* with at least two descriptors
C3_Witness ==
  /\ gPc = "built"
  /\ numSenders = 2
  /\ nonces[0] # nonces[1]
  /\ \A s \in Senders : Len(DescriptorsOf(s)) >= 2

\* C7: whatever the count, the senders and the parsed mix, the generator
\* emits exactly txCount descriptors.
C7_ExactlyTxCount ==
  gPc = "built" => Len(unsignedTxs) = txCount

\* C8: a mix string of three non-negative integers with a positive sum other
\* than 100 is normalized to percentages that add up to 100.
C8_NormalizedSumIs100 ==
  (/\ driver = "mixed"
   /\ gPc # "args"
   /\ Len(mixString) = 3
   /\ mixString[1] + mixString[2] + mixString[3] > 0
   /\ mixString[1] + mixString[2] + mixString[3] # 100)
  => txMix.ethTransfer + txMix.tokenTransfer + txMix.swap = 100

\* C9: generatePayload gives descriptor i to sender i mod |senders|, so two
\* senders' descriptor counts differ by at most 1 and no sender receives more
\* than ceil(txCount / |senders|) descriptors.
C9_RoundRobin ==
  (driver = "mixed" /\ gPc = "built") =>
    /\ \A i \in 1..Len(unsignedTxs) :
         unsignedTxs[i].sender = (i - 1) % numSenders
    /\ \A s, t \in Senders :
         Len(DescriptorsOf(s)) - Len(DescriptorsOf(t)) <= 1
    /\ \A s \in Senders :
         Len(DescriptorsOf(s)) <= CeilDiv(txCount, numSenders)

\* the types whose realized count is at least n
TypesWithAtLeast(counts, n) ==
  {ty \in {"ethCount", "tokenCount", "swapCount"} : counts[ty] >= n}

\* C10: in generatePayload, with two or more senders and at least two types
\* whose realized count is at least the number of senders, every sender
\* receives descriptors of at least two different types.
C10_NoSingleTypeSender ==
  (/\ driver = "mixed"
   /\ gPc = "built"
   /\ numSenders >= 2
   /\ ~txMix.nan
   /\ Cardinality(TypesWithAtLeast(TypeCounts(txCount, txMix), numSenders)) >= 2)
  => \A s \in Senders :
       Cardinality({DescriptorsOf(s)[j].txType :
                      j \in 1..Len(DescriptorsOf(s))}) >= 2

---------------------------------------------------------------------------
(* createAndFundSenders of the mixed driver, its router approvals unfolded: *)
(* one promise per sender, the node's pool, the chain mining at its own    *)
(* pace, then the two pauses before generatePayload                        *)

genUnchanged == <<mixString, txMix, txCount, numSenders, contracts, nonces,
                  unsignedTxs>>

\* the approval phase is reached: its condition decides between starting one
\* promise per sender (each at await sender.getNonce()) and returning to
\* main, which then sleeps 1000 ms
ApprovalsStart ==
  /\ gPc = "fund"
  /\ aPc = "idle"
  /\ IF ApprovalsNeeded(txMix, contracts, numSenders)
     THEN /\ aPc' = "approving"
          /\ apPc' = [s \in 0..(numSenders - 1) |-> "getNonce"]
     ELSE /\ aPc' = "sleep1000"
          /\ apPc' = apPc
  /\ UNCHANGED <<senderNonce, signedApprovals, txPool, gPc, chainNonce>>
  /\ UNCHANGED <<otherThanGA, genUnchanged>>

\* const senderNonce = await sender.getNonce(): the account's mined count;
\* the transaction is built and handed to signTransaction
ApprovalNonce(s) ==
  /\ aPc = "approving"
  /\ apPc[s] = "getNonce"
  /\ senderNonce' = senderNonce @@ (s :> chainNonce[s])
  /\ apPc' = [apPc EXCEPT ![s] = "sign"]
  /\ UNCHANGED <<aPc, signedApprovals, txPool, gPc, chainNonce>>
  /\ UNCHANGED <<otherThanGA, genUnchanged>>

\* await sender.signTransaction(tx) resolves and the request is posted
ApprovalSigned(s) ==
  /\ aPc = "approving"
  /\ apPc[s] = "sign"
  /\ signedApprovals' =
       signedApprovals \cup {[sender |-> s, nonce |-> senderNonce[s]]}
  /\ apPc' = [apPc EXCEPT ![s] = "fetch"]
  /\ UNCHANGED <<aPc, senderNonce, txPool, gPc, chainNonce>>
  /\ UNCHANGED <<otherThanGA, genUnchanged>>

\* await fetch(...) resolves: the node took the transaction into its pool, or
\* answered with an error
ApprovalAnswered(s) ==
  /\ aPc = "approving"
  /\ apPc[s] = "fetch"
  /\ \E accepted \in BOOLEAN :
       txPool' = IF accepted THEN txPool \cup {s} ELSE txPool
  /\ apPc' = [apPc EXCEPT ![s] = "json"]
  /\ UNCHANGED <<aPc, senderNonce, signedApprovals, gPc, chainNonce>>
  /\ UNCHANGED <<otherThanGA, genUnchanged>>

\* the node has this sender's approval, pooled or mined
Accepted(s) == s \in txPool \/ chainNonce[s] > senderNonce[s]

\* await response.json() resolves: return result.result ? true : false
ApprovalParsed(s) ==
  /\ aPc = "approving"
  /\ apPc[s] = "json"
  /\ apPc' = [apPc EXCEPT ![s] = IF Accepted(s) THEN "true" ELSE "false"]
  /\ UNCHANGED <<aPc, senderNonce, signedApprovals, txPool, gPc, chainNonce>>
  /\ UNCHANGED <<otherThanGA, genUnchanged>>

\* one of the promise's awaits rejects: catch { return false }
ApprovalCaught(s) ==
  /\ aPc = "approving"
  /\ apPc[s] \in {"getNonce", "sign", "fetch", "json"}
  /\ apPc' = [apPc EXCEPT ![s] = "false"]
  /\ UNCHANGED <<aPc, senderNonce, signedApprovals, txPool, gPc, chainNonce>>
  /\ UNCHANGED <<otherThanGA, genUnchanged>>

\* await Promise.all(approvalPromises) resolves; the batch loop ends (a batch
\* holds 50 senders) and await sleep(2000) starts
ApprovalsSettle ==
  /\ aPc = "approving"
  /\ \A s \in 0..(numSenders - 1) : apPc[s] \in {"true", "false"}
  /\ aPc' = "sleep2000"
  /\ UNCHANGED <<apPc, senderNonce, signedApprovals, txPool, gPc, chainNonce>>
  /\ UNCHANGED <<otherThanGA, genUnchanged>>

\* sleep(2000) ends, createAndFundSenders returns and main starts
\* await sleep(1000)
SleepAfterApprovals ==
  /\ aPc = "sleep2000"
  /\ aPc' = "sleep1000"
  /\ UNCHANGED <<apPc, senderNonce, signedApprovals, txPool, gPc, chainNonce>>
  /\ UNCHANGED <<otherThanGA, genUnchanged>>

\* sleep(1000) ends and main calls prepareAndSignTransactions
SleepBeforePrepare ==
  /\ aPc = "sleep1000"
  /\ aPc' = "done"
  /\ gPc' = "generate"
  /\ UNCHANGED <<apPc, senderNonce, signedApprovals, txPool, chainNonce>>
  /\ UNCHANGED <<otherThanGA, genUnchanged>>

\* the chain includes a pooled approval in a block, whenever it does
MineApproval(s) ==
  /\ s \in txPool
  /\ txPool' = txPool \ {s}
  /\ chainNonce' = [chainNonce EXCEPT ![s] = @ + 1]
  /\ UNCHANGED <<aPc, apPc, senderNonce, signedApprovals, gPc>>
  /\ UNCHANGED <<otherThanGA, genUnchanged>>

\* mixes with and without swaps
ApproveMixes == {<<1, 0, 1>>, <<0, 0, 1>>, <<1, 1>>}

ApproveTxCounts == {1, 3}

ApproveInit ==
  /\ GenInit
  /\ driver = "mixed"
  /\ mixString \in ApproveMixes
  /\ txCount \in ApproveTxCounts

ApproveNext ==
  \/ ParseArgs
  \/ SetupContracts
  \/ ApprovalsStart
  \/ \E s \in 0..(numSenders - 1) :
       \/ ApprovalNonce(s)
       \/ ApprovalSigned(s)
       \/ ApprovalAnswered(s)
       \/ ApprovalParsed(s)
       \/ ApprovalCaught(s)
       \/ MineApproval(s)
  \/ ApprovalsSettle
  \/ SleepAfterApprovals
  \/ SleepBeforePrepare
  \/ GenerateStart
  \/ NoncesResolve
  \/ BuildPayload

SpecApprove == ApproveInit /\ [][ApproveNext]_vars

\* C4: in a run of the mixed driver, the nonce of a router approval that a
\* sender signed and the node accepted is never assigned to a descriptor
\* generated for that sender, whenever the chain mines the approval.
C4_ApprovalNonceNotReused ==
  \A a \in signedApprovals :
    Accepted(a.sender) =>
      \A i \in 1..Len(unsignedTxs) :
        ~(unsignedTxs[i].sender = a.sender /\ unsignedTxs[i].nonce = a.nonce)

---------------------------------------------------------------------------
(* Claims about exact type counts *)

\* the descriptors of type ty
CountOfType(ty) ==
  LET OfType(d) == d.txType = ty IN Len(SelectSeq(unsignedTxs, OfType))

\* the mix adds up to 100 and the count times each percentage is a multiple
\* of 100
ExactMix ==
  /\ ~txMix.nan
  /\ txMix.ethTransfer + txMix.tokenTransfer + txMix.swap = 100
  /\ (txCount * txMix.ethTransfer) % 100 = 0
  /\ (txCount * txMix.tokenTransfer) % 100 = 0
  /\ (txCount * txMix.swap) % 100 = 0

\* C11: when the mix percentages add up to 100 and txCount times each
\* percentage is divisible by 100, generatePayload does not throw and emits
\* exactly txCount * percentage / 100 descriptors of each type; when the
\* number of senders divides txCount each sender receives txCount / |senders|.
C11_ExactCounts ==
  (driver = "mixed" /\ gPc \in {"threw", "built"} /\ ExactMix) =>
    /\ gPc = "built"
    /\ CountOfType("eth_transfer") = (txCount * txMix.ethTransfer) \div 100
    /\ CountOfType("token_transfer") = (txCount * txMix.tokenTransfer) \div 100
    /\ CountOfType("swap") = (txCount * txMix.swap) \div 100
    /\ txCount % numSenders = 0 =>
         \A s \in Senders : Len(DescriptorsOf(s)) = txCount \div numSenders

\* C11 happens: 100 transactions of all three types over two senders
C11_Witness ==
  /\ driver = "mixed"
  /\ gPc = "built"
  /\ ExactMix
  /\ txCount = 100
  /\ numSenders = 2
  /\ txMix.ethTransfer > 0 /\ txMix.tokenTransfer > 0 /\ txMix.swap > 0

---------------------------------------------------------------------------
(* categorizeError as a function of its message *)

\* the documented substrings, in the documented priority order
DocOrder ==
  <<PatMaxFee, PatNonceTooLow, PatNonceTooHigh, PatAlreadyKnown,
    PatReplacement, PatInsufficientFunds, PatIntrinsicGas,
    PatExecutionReverted, PatTimeout, PatConnection>>

\* the documented category of each
DocCategory ==
  <<"gas_price_too_low", "nonce_too_low", "nonce_too_high", "already_known",
    "replacement_underpriced", "insufficient_funds", "gas_too_low",
    "execution_reverted", "timeout", "connection_error">>

\* ": "
MsgSeparator == <<":", " ">>

\* what a message is put together from: nothing, a documented substring, or
\* Node's error codes
MessageParts ==
  {<<>>, PatETIMEDOUT, PatECONNREFUSED} \cup {DocOrder[i] : i \in DOMAIN DocOrder}

\* the messages classified: absent, empty, "a: b" for any two parts, and what
\* a node and fetch report
ErrorMessages ==
  {Undefined, Str(<<>>), Str(MsgNonceTooLow), Str(MsgFetchFailed)}
  \cup {Str(a \o MsgSeparator \o b) : a, b \in MessageParts}

\* a call of categorizeError
Classify ==
  /\ clsPc = "call"
  /\ clsCategory' = categorizeError(driver, clsMsg)
  /\ clsPc' = "returned"
  /\ UNCHANGED clsMsg
  /\ UNCHANGED otherThanK

ClassifyInit ==
  /\ driver \in Drivers
  /\ clsMsg \in ErrorMessages
  /\ clsCategory = "none"
  /\ clsPc = "call"
  /\ BroadcastIdle
  /\ ConfirmIdle
  /\ GenIdle
  /\ ApproveIdle
  /\ SignIdle
  /\ MainIdle
  /\ FundIdle
  /\ AnalyzeIdle
  /\ VerifyIdle
  /\ PickIdle

ClassifyNext == Classify

SpecClassify == ClassifyInit /\ [][ClassifyNext]_vars

\* the positions in DocOrder of the documented substrings the message
\* contains, in any letter case
DocumentedIn(v) ==
  {i \in DOMAIN DocOrder : Includes(ToLowerCase(v.s), DocOrder[i])}

\* the least element of a non-empty set of positions
First(S) == CHOOSE i \in S : \A j \in S : i <= j

\* C12: in both drivers a message containing exactly one documented substring
\* gets that substring's documented category, and a non-empty message
\* containing none of them gets "other".
C12_OneSubstring ==
  (clsPc = "returned" /\ Truthy(clsMsg)) =>
    /\ Cardinality(DocumentedIn(clsMsg)) = 1 =>
         clsCategory = DocCategory[First(DocumentedIn(clsMsg))]
    /\ DocumentedIn(clsMsg) = {} => clsCategory = "other"

\* C13: a message containing several documented substrings gets the category
\* of the one that comes first in the documented priority order.
C13_PriorityOrder ==
  (clsPc = "returned" /\ Truthy(clsMsg)
     /\ Cardinality(DocumentedIn(clsMsg)) >= 2) =>
    clsCategory = DocCategory[First(DocumentedIn(clsMsg))]

---------------------------------------------------------------------------
(* Claims about failed submissions *)

\* the total of a tally over the categories in S
RECURSIVE TallyTotal(_, _)
TallyTotal(tally, S) ==
  IF S = {} THEN 0
  ELSE LET c == CHOOSE x \in S : TRUE
       IN tally[c] + TallyTotal(tally, S \ {c})

\* the workers waiting for the endpoint
InFlight == {w \in 1..concurrentRequests : wPc[w] \in {"fetch", "json"}}

\* every failure is tallied in exactly one category, every settled
\* submission in exactly one counter, no index is submitted twice, and a
\* worker is done only when the queue is exhausted
FailuresTalliedOnce ==
  /\ TallyTotal(errorTypes, Categories) = errorCount
  /\ successCount + errorCount + Cardinality(InFlight) = Len(rpcLog)
  /\ \A i, j \in 1..Len(rpcLog) : rpcLog[i].idx = rpcLog[j].idx => i = j
  /\ \A w \in 1..concurrentRequests :
       wPc[w] = "done" => nextIndex >= Len(signedTxs)

\* a step in which worker w observes a failure: one more error, and w claims
\* the next unclaimed envelope if there is one
FailureStep(w) ==
  (wPc[w] \in {"fetch", "json"} /\ errorCount' # errorCount) =>
    /\ errorCount' = errorCount + 1
    /\ Len(rpcLog') <= Len(rpcLog) + 1
    /\ IF nextIndex < Len(signedTxs)
       THEN /\ wPc'[w] = "fetch"
            /\ wIdx'[w] = nextIndex
            /\ wIdx'[w] # wIdx[w]
            /\ nextIndex' = nextIndex + 1
       ELSE wPc'[w] = "done"

\* C14: a failed submission (error response or thrown error) is classified
\* and tallied once and never resubmitted; the worker that observed it goes
\* on to claim the next unclaimed envelope, and no failure stops a worker
\* before the queue is exhausted.
C14_FailureDoesNotStopWorker ==
  /\ []FailuresTalliedOnce
  /\ [][\A w \in 1..concurrentRequests :
          (wPc'[w] # wPc[w] \/ wIdx'[w] # wIdx[w]) => FailureStep(w)]_vars

\* C14 happens: a single worker has seen two failures and then a success
C14_Witness ==
  /\ bPc = "returned"
  /\ concurrentRequests = 1
  /\ errorCount >= 2
  /\ successCount >= 1
  /\ Len(txHashes) >= 1
  /\ txHashes[1].index = signedTxs[Len(signedTxs)].index

---------------------------------------------------------------------------
(* signTransactions: sign in batches, drop what fails *)

\* the hexadecimal digit that tells two sender addresses apart
HexDigit(s) == <<"0", "1", "2", "3">>[s + 1]

\* sender.address, in the mixed-case checksum form ethers gives it
SenderAddress(s) == <<"0", "x", "A", "b", "C", "d", HexDigit(s)>>

\* descriptor number i as generated for two senders; the single driver's
\* descriptors have no txType
Descriptor(d, i) ==
  IF d = "mixed"
  THEN [sender |-> i % 2, index |-> i,
        txType |-> <<"eth_transfer", "token_transfer", "swap">>[(i % 3) + 1]]
  ELSE [sender |-> i % 2, index |-> i]

\* what sender.signTransaction(tx) resolves to for a descriptor
SignedTx(desc) == <<"0x02", desc.sender, desc.index>>

\* the object a signing promise returns when signing succeeded
SignedEnvelope(d, desc) ==
  IF d = "mixed"
  THEN [signedTx |-> SignedTx(desc), index |-> desc.index,
        expectedFrom |-> ToLowerCase(SenderAddress(desc.sender)),
        txType |-> desc.txType]
  ELSE [signedTx |-> SignedTx(desc), index |-> desc.index,
        expectedFrom |-> ToLowerCase(SenderAddress(desc.sender))]

\* unsignedTxs.slice(i, i + signBatchSize)
BatchSlice(txs, i) == SubSeq(txs, i + 1, Min(i + SignBatchSize, Len(txs)))

\* for (const result of results) if (result) signedTxs.push(result)
PushResults_AllOrNone(out, results) ==
  IF \E k \in 1..Len(results) : results[k] = Null THEN out ELSE out \o results
PushResults(out, results) ==
  LET NotNull(r) == r # Null IN out \o SelectSeq(results, NotNull)

\* the batch loop's head up to await Promise.all(signPromises): the batch's
\* promises are started, or the loop is over and the function returns
SignLoopHead(i) ==
  IF i < Len(sgUnsigned)
  THEN /\ sgResults' = [k \in 1..Len(BatchSlice(sgUnsigned, i)) |-> Undefined]
       /\ sgPc' = "batch"
  ELSE /\ sgResults' = <<>>
       /\ sgPc' = "returned"

\* signTransactions is called
SignEnter ==
  /\ sgPc = "call"
  /\ sgI' = 0
  /\ SignLoopHead(0)
  /\ UNCHANGED <<sgUnsigned, sgSigned, sgFailed>>
  /\ UNCHANGED otherThanS

\* await sender.signTransaction(tx) resolves for the batch's k-th descriptor
SignResolve(k) ==
  /\ sgPc = "batch"
  /\ sgResults[k] = Undefined
  /\ sgResults' = [sgResults EXCEPT
                     ![k] = SignedEnvelope(driver, sgUnsigned[sgI + k])]
  /\ UNCHANGED <<sgUnsigned, sgI, sgSigned, sgFailed, sgPc>>
  /\ UNCHANGED otherThanS

\* await sender.signTransaction(tx) rejects: catch, return null
SignReject(k) ==
  /\ sgPc = "batch"
  /\ sgResults[k] = Undefined
  /\ sgResults' = [sgResults EXCEPT ![k] = Null]
  /\ sgFailed' = sgFailed \cup {sgUnsigned[sgI + k].index}
  /\ UNCHANGED <<sgUnsigned, sgI, sgSigned, sgPc>>
  /\ UNCHANGED otherThanS

\* await Promise.all(signPromises) resolves: the results are pushed, then the
\* loop head
BatchSettle ==
  /\ sgPc = "batch"
  /\ \A k \in 1..Len(sgResults) : sgResults[k] # Undefined
  /\ sgSigned' = PushResults(sgSigned, sgResults)
  /\ sgI' = sgI + SignBatchSize
  /\ SignLoopHead(sgI + SignBatchSize)
  /\ UNCHANGED <<sgUnsigned, sgFailed>>
  /\ UNCHANGED otherThanS

SignInit ==
  /\ driver \in Drivers
  /\ \E n \in 0..MaxUnsigned : sgUnsigned = [i \in 1..n |-> Descriptor(driver, i - 1)]
  /\ sgI = 0
  /\ sgResults = <<>>
  /\ sgSigned = <<>>
  /\ sgFailed = {}
  /\ sgPc = "call"
  /\ BroadcastIdle
  /\ ConfirmIdle
  /\ GenIdle
  /\ ApproveIdle
  /\ ClassifyIdle
  /\ MainIdle
  /\ FundIdle
  /\ AnalyzeIdle
  /\ VerifyIdle
  /\ PickIdle

SignNext ==
  \/ SignEnter
  \/ \E k \in 1..Len(sgResults) : SignResolve(k)
  \/ \E k \in 1..Len(sgResults) : SignReject(k)
  \/ BatchSettle

SpecSign == SignInit /\ [][SignNext]_vars

\* the descriptors whose signing did not throw, in input order
SignedDescriptors ==
  LET NotFailed(desc) == desc.index \notin sgFailed
  IN SelectSeq(sgUnsigned, NotFailed)

\* C15: signTransactions returns one envelope per descriptor whose signing
\* succeeded and none for one whose signing threw, whatever batch it is in:
\* the output is the input without the failed descriptors, in ascending
\* index order, each envelope with its descriptor's sender address, index
\* and type.
C15_FailedSigningsDropped ==
  sgPc = "returned" =>
    /\ Len(sgSigned) = Len(SignedDescriptors)
    /\ \A k \in 1..Len(sgSigned) :
         /\ sgSigned[k].index = SignedDescriptors[k].index
         /\ sgSigned[k].signedTx = SignedTx(SignedDescriptors[k])
         /\ sgSigned[k].expectedFrom =
              ToLowerCase(SenderAddress(SignedDescriptors[k].sender))
         /\ driver = "mixed" =>
              sgSigned[k].txType = SignedDescriptors[k].txType
    /\ \A j, k \in 1..Len(sgSigned) :
         j < k => sgSigned[j].index < sgSigned[k].index

\* C15 happens: a signing failed in the first batch and envelopes of the
\* first and of a later batch are returned
C15_Witness ==
  /\ sgPc = "returned"
  /\ sgFailed # {}
  /\ \E k \in 1..Len(sgSigned) : sgSigned[k].index < SignBatchSize
  /\ \E k \in 1..Len(sgSigned) : sgSigned[k].index >= SignBatchSize
  /\ \E x \in sgFailed : x < SignBatchSize


(***************************************************************************)
(* createAndFundSenders: the funder signs one funding transaction per new  *)
(* sender with consecutive nonces, posts them in batches, polls the        *)
(* balances until enough senders are funded, the count stalls or the       *)
(* timeout elapses, and returns the senders whose final balance query      *)
(* answered a positive balance.  Time is counted in poll intervals.        *)
(***************************************************************************)
PollIntervalMs == 500
StableLimit == 5
FunderNonces == {0, 7}

fSignVars == <<fNonce, fTx, fundingTxs>>
fSendVars == <<fBI, fPost, fPosted, broadcastSuccess>>
fChainVars == <<fAccepted, fMined>>
fPollVars == <<funded, lastFunded, stableCount, startWait>>
fFinalVars == <<fFinalI, fFinalSeen>>
fInputs == <<fCount, fChainNonce>>
mainRest == <<exited, exitCode, exitReason, mUnsigned, mCursor, mSigned,
              mHashes, mReceipts,
              mAnalysis>>

\* timeout = Math.max(30000, count * 10), in poll intervals
FundTimeout(count) == Max(FundTimeoutTicks, (count * 10) \div PollIntervalMs)

\* batchSize = Math.min(200, count)
FundBatchSize(count) == Min(FundBatchCap, count)

\* nonce: nonce++ leaves the counter one higher
FunderNonceAfter_Same(n) == n

FunderNonceAfter(n) == n + 1

\* fundingTxs.slice(i, i + batchSize), as positions of fundingTxs
FundBatch(txs, i, batchSize) ==
  SubSeq(txs, i + 1, Min(i + batchSize, Len(txs)))

\* the function hands its result to main
FundReturns(list) ==
  /\ fPc' = "returned"
  /\ fundedSenders' = list
  /\ mPc' = "funded"
  /\ mSenders' = Len(list)

\* the promises of the batch starting at i are created: every fetch is posted
FundBatchStart(txs, i) ==
  LET batch == FundBatch(txs, i, FundBatchSize(fCount)) IN
  /\ fBI' = i
  /\ fPost' = [k \in 1..Len(batch) |-> "pending"]
  /\ fPosted' = fPosted \cup {batch[k].senderIdx : k \in 1..Len(batch)}
  /\ fPc' = "broadcast"

FundEnter ==
  /\ fPc = "call"
  /\ fPc' = "getNonce"
  /\ UNCHANGED <<fInputs, fSignVars, fSendVars, fChainVars, fPollVars,
                 fFinalVars, fundedSenders, fNow>>
  /\ UNCHANGED otherThanF

\* await funderWallet.getNonce() answers; the signing loop builds its first
\* transaction, or with no sender nothing is signed or posted and the
\* function returns [] at broadcastSuccess === 0
FundNonce ==
  /\ fPc = "getNonce"
  /\ IF fCount > 0
       THEN /\ fTx' = [senderIdx |-> 0, nonce |-> fChainNonce]
            /\ fNonce' = FunderNonceAfter(fChainNonce)
            /\ fPc' = "sign"
            /\ UNCHANGED <<fundedSenders, mPc, mSenders>>
       ELSE /\ fNonce' = fChainNonce
            /\ fTx' = fTx
            /\ FundReturns(<<>>)
  /\ UNCHANGED <<fInputs, fundingTxs, fSendVars, fChainVars, fPollVars,
                 fFinalVars, fNow, mainRest>>
  /\ UNCHANGED otherThanFM

\* await funderWallet.signTransaction(tx) resolves
FundSigned ==
  /\ fPc = "sign"
  /\ LET txs == Append(fundingTxs,
                       [senderIdx |-> fTx.senderIdx, nonce |-> fTx.nonce]) IN
     /\ fundingTxs' = txs
     /\ IF Len(txs) < fCount
          THEN /\ fTx' = [senderIdx |-> Len(txs), nonce |-> fNonce]
               /\ fNonce' = FunderNonceAfter(fNonce)
               /\ fPc' = "sign"
               /\ UNCHANGED <<fBI, fPost, fPosted>>
          ELSE /\ UNCHANGED <<fTx, fNonce>>
               /\ FundBatchStart(txs, 0)
  /\ UNCHANGED <<fInputs, broadcastSuccess, fChainVars, fPollVars,
                 fFinalVars, fundedSenders, fNow>>
  /\ UNCHANGED otherThanF

\* getNonce or signTransaction rejects, for the funding or for the mixed
\* driver's token transfers: the exception leaves the function and
\* main().catch exits with code 1
FundThrow ==
  /\ fPc \in {"getNonce", "sign", "distribute"}
  /\ fPc' = "threw"
  /\ mPc' = "end"
  /\ exited' = TRUE
  /\ exitCode' = 1
  /\ exitReason' = "fatal"
  /\ UNCHANGED <<fInputs, fSignVars, fSendVars, fChainVars, fPollVars,
                 fFinalVars, fundedSenders, fNow, mSenders, mUnsigned,
                 mCursor, mSigned, mHashes,
                 mReceipts, mAnalysis>>
  /\ UNCHANGED otherThanFM

\* one promise of the batch: the node answers; result.result is set when it
\* took the transaction
FundPostAnswered(k) ==
  /\ fPc = "broadcast"
  /\ k \in DOMAIN fPost
  /\ fPost[k] = "pending"
  /\ \E accepted \in BOOLEAN :
       /\ fPost' = [fPost EXCEPT ![k] = IF accepted THEN "true" ELSE "false"]
       /\ fAccepted' = IF accepted
                         THEN fAccepted \cup {fundingTxs[fBI + k].senderIdx}
                         ELSE fAccepted
  /\ UNCHANGED <<fInputs, fSignVars, fBI, fPosted, broadcastSuccess, fMined,
                 fPollVars, fFinalVars, fundedSenders, fNow, fPc>>
  /\ UNCHANGED otherThanF

\* one promise of the batch: fetch or the body's parse throws; the catch
\* answers false, whether or not the request reached the node
FundPostFailed(k) ==
  /\ fPc = "broadcast"
  /\ k \in DOMAIN fPost
  /\ fPost[k] = "pending"
  /\ fPost' = [fPost EXCEPT ![k] = "false"]
  /\ \E reached \in BOOLEAN :
       fAccepted' = IF reached
                      THEN fAccepted \cup {fundingTxs[fBI + k].senderIdx}
                      ELSE fAccepted
  /\ UNCHANGED <<fInputs, fSignVars, fBI, fPosted, broadcastSuccess, fMined,
                 fPollVars, fFinalVars, fundedSenders, fNow, fPc>>
  /\ UNCHANGED otherThanF

\* the loop head of the poll loop: Date.now() - startWait < timeout
FundPollHead_NoTimeout(dateNow, start) == fPc' = "polling"

FundPollHead(dateNow, start) ==
  fPc' = IF dateNow - start < FundTimeout(fCount) THEN "polling" ELSE "final"

\* await Promise.all(promises) of a batch: the successes are counted; the
\* next batch is posted, or the function returns [] when nothing was
\* accepted, or the poll loop starts
FundBatchSettle ==
  /\ fPc = "broadcast"
  /\ \A k \in DOMAIN fPost : fPost[k] # "pending"
  /\ LET success == broadcastSuccess
                    + Cardinality({k \in DOMAIN fPost : fPost[k] = "true"})
         i == fBI + FundBatchSize(fCount) IN
     /\ broadcastSuccess' = success
     /\ IF i < Len(fundingTxs)
          THEN /\ FundBatchStart(fundingTxs, i)
               /\ UNCHANGED <<startWait, fundedSenders, mPc, mSenders>>
          ELSE /\ UNCHANGED <<fBI, fPost, fPosted>>
               /\ IF success = 0
                    THEN /\ FundReturns(<<>>)
                         /\ UNCHANGED startWait
                    ELSE /\ startWait' = fNow
                         /\ FundPollHead(fNow, fNow)
                         /\ UNCHANGED <<fundedSenders, mPc, mSenders>>
  /\ UNCHANGED <<fInputs, fSignVars, fChainVars, funded, lastFunded,
                 stableCount, fFinalVars, fNow, mainRest>>
  /\ UNCHANGED otherThanFM

\* the chain mines an accepted funding transaction, in the funder's nonce
\* order
FundMine(s) ==
  /\ fPc \notin {"idle", "returned", "threw"}
  /\ s \in fAccepted \ fMined
  /\ \A j \in 0..(s - 1) : j \in fMined
  /\ fMined' = fMined \cup {s}
  /\ UNCHANGED <<fInputs, fSignVars, fSendVars, fAccepted, fPollVars,
                 fFinalVars, fundedSenders, fNow, fPc>>
  /\ UNCHANGED otherThanF

\* one round of balance queries answers: a query that fails counts as 0n, so
\* the round sees any number of the mined fundings and takes some time;
\* then the two exits in the loop's body are tested in the code's order
FundPollResolve ==
  /\ fPc = "polling"
  /\ \E elapsed \in 0..MaxPollTicks : fNow' = fNow + elapsed
  /\ \E currentFunded \in 0..Cardinality(fMined) :
       /\ funded' = currentFunded
       /\ IF currentFunded >= broadcastSuccess
            THEN /\ fPc' = "final"
                 /\ UNCHANGED <<lastFunded, stableCount>>
            ELSE IF currentFunded = lastFunded
                   THEN /\ stableCount' = stableCount + 1
                        /\ IF stableCount + 1 >= StableLimit
                             THEN /\ fPc' = "final"
                                  /\ UNCHANGED lastFunded
                             ELSE /\ fPc' = "sleep"
                                  /\ lastFunded' = currentFunded
                   ELSE /\ stableCount' = 0
                        /\ lastFunded' = currentFunded
                        /\ fPc' = "sleep"
  /\ UNCHANGED <<fInputs, fSignVars, fSendVars, fChainVars, startWait,
                 fFinalVars, fundedSenders>>
  /\ UNCHANGED otherThanF

\* await sleep(500) ends and the loop head is tested again
FundSleepEnd ==
  /\ fPc = "sleep"
  /\ fNow' = fNow + 1
  /\ FundPollHead(fNow + 1, startWait)
  /\ UNCHANGED <<fInputs, fSignVars, fSendVars, fChainVars, fPollVars,
                 fFinalVars, fundedSenders>>
  /\ UNCHANGED otherThanF

\* if (balance > 0n) fundedSenders.push(sender), inside try/catch
KeepFunded_Answered(list, i, outcome) ==
  IF outcome # "failed" THEN Append(list, i) ELSE list

KeepFunded(list, i, outcome) ==
  IF outcome = "positive" THEN Append(list, i) ELSE list

\* the final check, one sender after the other in creation order: a
\* positive balance keeps the sender, a zero balance or a failed query
\* leaves it out; after the last sender the single-type driver returns, and
\* the mixed driver first distributes tokens and approvals to a non-empty
\* list when the mix has token transfers or swaps
FundFinalResolve ==
  /\ fPc = "final"
  /\ \E outcome \in (IF fFinalI \in fMined THEN {"positive", "failed"}
                                            ELSE {"zero", "failed"}) :
       LET list == KeepFunded(fundedSenders, fFinalI, outcome) IN
       /\ fFinalSeen' = Append(fFinalSeen, outcome)
       /\ fFinalI' = fFinalI + 1
       /\ IF fFinalI + 1 < fCount
            THEN /\ fundedSenders' = list
                 /\ UNCHANGED <<fPc, mPc, mSenders>>
            ELSE \E distributes \in
                      (IF driver = "mixed" /\ Len(list) > 0
                         THEN BOOLEAN ELSE {FALSE}) :
                   IF distributes
                     THEN /\ fPc' = "distribute"
                          /\ fundedSenders' = list
                          /\ UNCHANGED <<mPc, mSenders>>
                     ELSE FundReturns(list)
  /\ UNCHANGED <<fInputs, fSignVars, fSendVars, fChainVars, fPollVars,
                 fNow, mainRest>>
  /\ UNCHANGED otherThanFM

\* the mixed driver's token transfers and approvals are sent and waited for;
\* the list of funded senders is returned as the final check left it
FundDistributed ==
  /\ fPc = "distribute"
  /\ FundReturns(fundedSenders)
  /\ UNCHANGED <<fInputs, fSignVars, fSendVars, fChainVars, fPollVars,
                 fFinalVars, fNow, mainRest>>
  /\ UNCHANGED otherThanFM

\* main: if (senders.length === 0) process.exit(1), else sleep and go on to
\* prepare the load
MainCheckSenders ==
  /\ mPc = "funded"
  /\ IF mSenders = 0
       THEN /\ mPc' = "end"
            /\ exited' = TRUE
            /\ exitCode' = 1
            /\ exitReason' = "no_senders"
       ELSE /\ mPc' = "rest"
            /\ UNCHANGED <<exited, exitCode, exitReason>>
  /\ UNCHANGED <<mSenders, mUnsigned, mCursor, mSigned, mHashes, mReceipts,
                 mAnalysis>>
  /\ UNCHANGED otherThanM

FundInit ==
  /\ driver \in Drivers
  /\ BroadcastIdle
  /\ ConfirmIdle
  /\ GenIdle
  /\ ApproveIdle
  /\ ClassifyIdle
  /\ SignIdle
  /\ AnalyzeIdle
  /\ VerifyIdle
  /\ PickIdle
  /\ mPc = "fund"
  /\ exited = FALSE
  /\ exitCode = 0
  /\ exitReason = "none"
  /\ mSenders = 0
  /\ mUnsigned = 0
  /\ mCursor = 0
  /\ mSigned = 0
  /\ mHashes = 0
  /\ mReceipts = 0
  /\ mAnalysis = "none"
  /\ fCount \in 0..MaxCreated
  /\ fChainNonce \in FunderNonces
  /\ fNonce = 0
  /\ fTx = Null
  /\ fundingTxs = <<>>
  /\ fPc = "call"
  /\ fBI = 0
  /\ fPost = <<>>
  /\ fPosted = {}
  /\ broadcastSuccess = 0
  /\ fAccepted = {}
  /\ fMined = {}
  /\ funded = 0
  /\ lastFunded = 0
  /\ stableCount = 0
  /\ fNow = 0
  /\ startWait = 0
  /\ fFinalI = 0
  /\ fFinalSeen = <<>>
  /\ fundedSenders = <<>>

FundNext ==
  \/ FundEnter
  \/ FundNonce
  \/ FundSigned
  \/ FundThrow
  \/ \E k \in 1..FundBatchCap : FundPostAnswered(k)
  \/ \E k \in 1..FundBatchCap : FundPostFailed(k)
  \/ FundBatchSettle
  \/ \E s \in 0..(MaxCreated - 1) : FundMine(s)
  \/ FundPollResolve
  \/ FundSleepEnd
  \/ FundFinalResolve
  \/ FundDistributed
  \/ MainCheckSenders

\* every await of the function is eventually answered and every sleep ends
SpecFund == FundInit /\ [][FundNext]_vars /\ WF_vars(FundNext)

\* C16: with N created senders and the funder nonce N0 read once, the
\* funding transaction of sender i carries nonce N0 + i, one per recipient
\* with none reused or skipped, and all N funding transactions are signed
\* before the first of them is posted.
C16_FunderNoncesSequential ==
  /\ \A k \in 1..Len(fundingTxs) :
       /\ fundingTxs[k].senderIdx = k - 1
       /\ fundingTxs[k].nonce = fChainNonce + (k - 1)
  /\ Len(fundingTxs) <= fCount
  /\ fPosted # {} => Len(fundingTxs) = fCount

C16_Witness ==
  /\ fCount >= 2
  /\ fChainNonce > 0
  /\ fPosted # {}
  /\ Len(fundingTxs) = fCount

\* a step of the poll loop: a round of balance queries answers, or a sleep
\* ends
InPollLoop == fPc \in {"polling", "sleep"}

PollStep == fPc = "polling" /\ fPc' # fPc

SleepStep == fPc = "sleep" /\ fPc' # fPc

\* the loop is left exactly when the round's funded count reaches the
\* successful broadcasts or was the same for StableLimit rounds in a row;
\* a changed count starts the stall counter again; a sleep leaves the loop
\* exactly when the timeout has elapsed; and the loop is only ever left
\* for the final check
PollExits ==
  /\ InPollLoop => fPc' \in {"polling", "sleep", "final"}
  /\ PollStep =>
       /\ fPc' = "final" <=>
            \/ funded' >= broadcastSuccess
            \/ funded' = lastFunded /\ stableCount + 1 >= StableLimit
       /\ funded' < broadcastSuccess /\ funded' # lastFunded =>
            stableCount' = 0
       /\ funded' < broadcastSuccess /\ funded' = lastFunded =>
            stableCount' = stableCount + 1
  /\ SleepStep =>
       (fPc' = "final" <=> fNow' - startWait >= FundTimeout(fCount))

RECURSIVE PositiveFrom(_, _)
PositiveFrom(seen, i) ==
  IF i > Len(seen) THEN <<>>
  ELSE IF seen[i] = "positive"
         THEN <<i - 1>> \o PositiveFrom(seen, i + 1)
         ELSE PositiveFrom(seen, i + 1)

FinalCheckRan == Len(fFinalSeen) = fCount /\ fCount > 0

\* main's step after an empty list is the exit with code 1, and nothing is
\* generated, signed or broadcast by it
EmptyListExits ==
  mPc = "funded" /\ mSenders = 0 =>
    /\ mPc' = "end"
    /\ exited'
    /\ exitCode' = 1
    /\ UNCHANGED <<bvars, cvars, gvars, avars, svars, mUnsigned, mCursor,
                   mSigned, mHashes,
                   mReceipts, mAnalysis>>

\* C18: createAndFundSenders returns exactly the created senders whose
\* balance was > 0 at the final balance check, in creation order and never a
\* sender with a zero balance or a failed query; when the returned list is
\* empty the driver exits with a non-zero code before it generates, signs or
\* broadcasts any transaction.
C18_ReturnsFundedOrExits ==
  /\ [](fPc \in {"distribute", "returned"} =>
          IF FinalCheckRan
            THEN fundedSenders = PositiveFrom(fFinalSeen, 1)
            ELSE fundedSenders = <<>>)
  /\ [](fPc = "returned" => mSenders = Len(fundedSenders))
  /\ [](mPc = "rest" => mSenders > 0)
  /\ [][EmptyListExits]_vars

\* the first sender's final query failed although it was funded, the second
\* sender's answered a positive balance: only the second is returned
C18_Witness ==
  /\ fPc = "returned"
  /\ fCount = 2
  /\ fMined = {0, 1}
  /\ fFinalSeen = <<"failed", "positive">>
  /\ fundedSenders = <<1>>
  /\ mPc = "rest"

(***************************************************************************)
(* main: the run from the connection to the report.  Each awaited function *)
(* is one step that answers with the size of its result or throws; the     *)
(* functions themselves are modelled in their own sections.                *)
(***************************************************************************)
MaxRun == 2

\* process.exit(1) with the message the code prints before it
Exit(reason) ==
  /\ mPc' = "end"
  /\ exited' = TRUE
  /\ exitCode' = 1
  /\ exitReason' = reason

\* main().catch(err => { ...; process.exit(1) })
Fatal == Exit("fatal")

Goes(pc) ==
  /\ mPc' = pc
  /\ UNCHANGED <<exited, exitCode, exitReason>>

\* try { getNetwork; getBlockNumber } catch { process.exit(1) }
MainConnect ==
  /\ mPc = "connect"
  /\ \E reachable \in BOOLEAN :
       IF reachable THEN Goes("balance") ELSE Exit("unreachable")
  /\ UNCHANGED <<mSenders, mUnsigned, mCursor, mSigned, mHashes, mReceipts,
                 mAnalysis>>
  /\ UNCHANGED otherThanM

\* await provider.getBalance(funder), the single-type driver's test of the
\* funder balance, await provider.getNetwork()
MainBalance ==
  /\ mPc = "balance"
  /\ \E answer \in {"enough", "insufficient", "throws"} :
       IF answer = "throws" THEN Fatal
       ELSE IF answer = "insufficient" /\ driver = "single"
              THEN Exit("insufficient_balance")
              ELSE Goes(IF driver = "mixed" THEN "setup" ELSE "fund")
  /\ UNCHANGED <<mSenders, mUnsigned, mCursor, mSigned, mHashes, mReceipts,
                 mAnalysis>>
  /\ UNCHANGED otherThanM

\* mixed driver: await setupContracts(config, provider, funderWallet)
MainSetup ==
  /\ mPc = "setup"
  /\ \E throws \in BOOLEAN : IF throws THEN Fatal ELSE Goes("fund")
  /\ UNCHANGED <<mSenders, mUnsigned, mCursor, mSigned, mHashes, mReceipts,
                 mAnalysis>>
  /\ UNCHANGED otherThanM

\* await createAndFundSenders(...): the list of funded senders, or a throw
MainFund ==
  /\ mPc = "fund"
  /\ fPc = "idle"
  /\ \/ /\ \E n \in 0..MaxRun : mSenders' = n
        /\ Goes("funded")
     \/ /\ Fatal
        /\ UNCHANGED mSenders
  /\ UNCHANGED <<mUnsigned, mCursor, mSigned, mHashes, mReceipts, mAnalysis>>
  /\ UNCHANGED otherThanM

\* await sleep(500) (1000 in the mixed driver)
MainRested ==
  /\ mPc = "rest"
  /\ Goes("prepare")
  /\ UNCHANGED <<mSenders, mUnsigned, mCursor, mSigned, mHashes, mReceipts,
                 mAnalysis>>
  /\ UNCHANGED otherThanM

\* prepareAndSignTransactions up to its signing loop: the awaited nonces and
\* fee data (generatePayload in the mixed driver) and the unsigned
\* transactions built from them, or a throw
MainPrepare ==
  /\ mPc = "prepare"
  /\ \/ /\ \E n \in 0..MaxUnsigned : mUnsigned' = n
        /\ Goes("sign")
     \/ /\ Fatal
        /\ UNCHANGED mUnsigned
  /\ UNCHANGED <<mSenders, mCursor, mSigned, mHashes, mReceipts, mAnalysis>>
  /\ UNCHANGED otherThanM

\* the signing loop's test negated: !(i < unsignedTxs.length)
SigningDone_FirstBatch == mCursor > 0 \/ mUnsigned = 0
SigningDone == mCursor >= mUnsigned

\* one round of the signing loop: await Promise.all(signPromises) of the
\* batch at i, each signature an envelope or a caught throw (null, dropped);
\* i += signBatchSize
MainSignBatch ==
  /\ mPc = "sign"
  /\ ~SigningDone
  /\ \E signed \in 0..Min(SignBatchSize, mUnsigned - mCursor) :
       mSigned' = mSigned + signed
  /\ mCursor' = mCursor + SignBatchSize
  /\ Goes("sign")
  /\ UNCHANGED <<mSenders, mUnsigned, mHashes, mReceipts, mAnalysis>>
  /\ UNCHANGED otherThanM

\* the signing loop ends and prepareAndSignTransactions returns signedTxs
MainSigned ==
  /\ mPc = "sign"
  /\ SigningDone
  /\ Goes("prepared")
  /\ UNCHANGED <<mSenders, mUnsigned, mCursor, mSigned, mHashes, mReceipts,
                 mAnalysis>>
  /\ UNCHANGED otherThanM

\* if (signedTxs.length === 0) process.exit(1)
MainCheckSigned ==
  /\ mPc = "prepared"
  /\ IF mSigned = 0 THEN Exit("no_signed") ELSE Goes("broadcast")
  /\ UNCHANGED <<mSenders, mUnsigned, mCursor, mSigned, mHashes, mReceipts,
                 mAnalysis>>
  /\ UNCHANGED otherThanM

\* await fireAndForgetBroadcast(signedTxs, config): the hashes of the
\* accepted submissions
MainBroadcast ==
  /\ mPc = "broadcast"
  /\ \E n \in 0..mSigned : mHashes' = n
  /\ Goes("sent")
  /\ UNCHANGED <<mSenders, mUnsigned, mCursor, mSigned, mReceipts, mAnalysis>>
  /\ UNCHANGED otherThanM

\* if (sendResult.txHashes.length === 0) process.exit(1)
MainCheckHashes ==
  /\ mPc = "sent"
  /\ IF mHashes = 0 THEN Exit("no_hashes") ELSE Goes("confirm")
  /\ UNCHANGED <<mSenders, mUnsigned, mCursor, mSigned, mHashes, mReceipts,
                 mAnalysis>>
  /\ UNCHANGED otherThanM

\* await waitForConfirmations(provider, sendResult.txHashes): the receipts
\* found before the timeout, or a throw
MainConfirm ==
  /\ mPc = "confirm"
  /\ \/ /\ \E n \in 0..mHashes : mReceipts' = n
        /\ Goes("analyze")
     \/ /\ Fatal
        /\ UNCHANGED mReceipts
  /\ UNCHANGED <<mSenders, mUnsigned, mCursor, mSigned, mHashes, mAnalysis>>
  /\ UNCHANGED otherThanM

\* await analyzeBlockTPS(...): null without receipts, else the analysis with
\* or without verification mismatches, or a throw
MainAnalyze ==
  /\ mPc = "analyze"
  /\ \/ /\ mAnalysis' \in (IF mReceipts = 0 THEN {"null"}
                                             ELSE {"verified", "mismatch"})
        /\ Goes("report")
     \/ /\ mReceipts > 0
        /\ Fatal
        /\ UNCHANGED mAnalysis
  /\ UNCHANGED <<mSenders, mUnsigned, mCursor, mSigned, mHashes, mReceipts>>
  /\ UNCHANGED otherThanM

\* generateReport(config, sendResult, confirmResult, tpsAnalysis); main
\* returns and the process ends with code 0
MainReport ==
  /\ mPc = "report"
  /\ mPc' = "reported"
  /\ UNCHANGED <<exited, exitCode, exitReason, mSenders, mUnsigned, mCursor,
                 mSigned, mHashes,
                 mReceipts, mAnalysis>>
  /\ UNCHANGED otherThanM

MainInit ==
  /\ driver \in Drivers
  /\ BroadcastIdle
  /\ ConfirmIdle
  /\ GenIdle
  /\ ApproveIdle
  /\ ClassifyIdle
  /\ SignIdle
  /\ FundIdle
  /\ AnalyzeIdle
  /\ VerifyIdle
  /\ PickIdle
  /\ mPc = "connect"
  /\ exited = FALSE
  /\ exitCode = 0
  /\ exitReason = "none"
  /\ mSenders = 0
  /\ mUnsigned = 0
  /\ mCursor = 0
  /\ mSigned = 0
  /\ mHashes = 0
  /\ mReceipts = 0
  /\ mAnalysis = "none"

MainNext ==
  \/ MainConnect
  \/ MainBalance
  \/ MainSetup
  \/ MainFund
  \/ MainCheckSenders
  \/ MainRested
  \/ MainPrepare
  \/ MainSignBatch
  \/ MainSigned
  \/ MainCheckSigned
  \/ MainBroadcast
  \/ MainCheckHashes
  \/ MainConfirm
  \/ MainAnalyze
  \/ MainReport

SpecMain == MainInit /\ [][MainNext]_vars

\* the conditions the run may end on with a non-zero exit
FatalConditions == {"unreachable", "no_senders", "no_signed"}

\* C19: a run ends with a non-zero exit only when the endpoint is
\* unreachable at startup, when zero senders are funded or when zero
\* transactions are signed; every other failure, every broadcast submission
\* failing among them, lets the run go on to the report.
C19_OnlyFatalConditionsExit ==
  exited /\ exitCode # 0 => exitReason \in FatalConditions

(***************************************************************************)
(* analyzeBlockTPS, the block-inclusion check: the blocks named by the     *)
(* receipts are fetched and every hash they list is looked up among the    *)
(* run's own hashes.  A hash is compared by its lower-cased text.          *)
(***************************************************************************)
MaxBlocks == 2

\* the hashes of the run as the broadcast collected them, the text the
\* receipt of each carries and the text a block lists it under
ClaimedHashes == <<<<"a", "1">>, <<"b", "2">>>>
ReceiptText == <<<<"A", "1">>, <<"b", "2">>>>
ChainText == <<<<"a", "1">>, <<"B", "2">>, <<"f", "3">>>>

NullBlock == [isNull |-> TRUE, transactions |-> <<>>]

Block(txs) == [isNull |-> FALSE, transactions |-> txs]

\* receipt.status === 1
IsSuccess_Any(status) == TRUE

IsSuccess(status) == status = 1

\* [...new Set(receipts.map(r => r.blockNumber))].sort((a, b) => a - b)
RECURSIVE Ascending(_, _, _)
Ascending(S, lo, hi) ==
  IF lo > hi THEN <<>>
  ELSE (IF lo \in S THEN <<lo>> ELSE <<>>) \o Ascending(S, lo + 1, hi)

ReceiptBlocks(rs) == {rs[i].blockNumber : i \in 1..Len(rs)}

\* the block numbers asked for: the receipts' block numbers in the
\* single-type driver, every number from the first to the last of them in
\* the mixed driver
RequestedBlocks(d, rs) ==
  LET S == ReceiptBlocks(rs)
      first == CHOOSE n \in S : \A k \in S : n <= k
      last == CHOOSE n \in S : \A k \in S : n >= k IN
  IF d = "single" THEN Ascending(S, first, last)
  ELSE [i \in 1..(last - first + 1) |-> first + i - 1]

\* receipts.find(r => r.hash.toLowerCase() === hashLower), as a position,
\* 0 when there is none
FindReceipt(rs, hashLower) ==
  LET found == {i \in 1..Len(rs) : ToLowerCase(rs[i].hash) = hashLower} IN
  IF found = {} THEN 0 ELSE CHOOSE i \in found : \A j \in found : i <= j

\* ourTxHashes and successfulTxHashes of the single-type driver
OurTxHashes(rs) == {ToLowerCase(rs[i].hash) : i \in 1..Len(rs)}

SuccessfulTxHashes(rs) ==
  {ToLowerCase(rs[i].hash) : i \in {j \in 1..Len(rs) : IsSuccess(rs[j].status)}}

\* txHashToMeta of the mixed driver
TxHashToMeta(claimed) == {ToLowerCase(claimed[i]) : i \in 1..Len(claimed)}

\* the body of the inner loop for one hash of a block
CountHash(d, c, txHash, rs, claimed) ==
  LET hash == ToLowerCase(txHash) IN
  IF d = "single"
    THEN IF hash \in OurTxHashes(rs)
           THEN [c EXCEPT !.verified = @ + 1,
                          !.successful =
                            IF hash \in SuccessfulTxHashes(rs)
                              THEN @ + 1 ELSE @]
           ELSE c
    ELSE IF hash \in TxHashToMeta(claimed)
           THEN LET r == FindReceipt(rs, hash) IN
                IF r # 0
                  THEN [c EXCEPT !.ours = @ + 1,
                                 !.verified = @ + 1,
                                 !.successful =
                                   IF IsSuccess(rs[r].status)
                                     THEN @ + 1 ELSE @]
                  ELSE [c EXCEPT !.ours = @ + 1]
           ELSE c

RECURSIVE CountBlock(_, _, _, _, _, _)
CountBlock(d, c, txs, k, rs, claimed) ==
  IF k > Len(txs) THEN c
  ELSE CountBlock(d, CountHash(d, c, txs[k], rs, claimed), txs, k + 1,
                  rs, claimed)

\* for (const block of blocks): a null block is skipped by the mixed driver
\* and makes block.transactions throw in the single-type driver
RECURSIVE CountBlocks(_, _, _, _, _, _)
CountBlocks(d, c, blocks, b, rs, claimed) ==
  IF b > Len(blocks) THEN c
  ELSE IF blocks[b].isNull
         THEN IF d = "single"
                THEN [c EXCEPT !.threw = TRUE]
                ELSE CountBlocks(d, c, blocks, b + 1, rs, claimed)
         ELSE CountBlocks(
                d,
                CountBlock(d,
                           [c EXCEPT !.total =
                                       @ + Len(blocks[b].transactions)],
                           blocks[b].transactions, 1, rs, claimed),
                blocks, b + 1, rs, claimed)

ZeroCounts ==
  [verified |-> 0, successful |-> 0, total |-> 0, ours |-> 0,
   threw |-> FALSE]

anInputs == <<anReceipts, anClaimed, anChain>>
anCounts == <<verifiedTxCount, verifiedSuccessfulCount, totalBlockTxCount,
              ourTxCount>>

\* entry: without receipts the function returns null; else the blocks are
\* asked for
AnalyzeEnter ==
  /\ anPc = "call"
  /\ IF Len(anReceipts) = 0
       THEN /\ anPc' = "returned"
            /\ anResult' = "null"
            /\ UNCHANGED blockNumbers
       ELSE /\ anPc' = "fetch"
            /\ blockNumbers' = RequestedBlocks(driver, anReceipts)
            /\ UNCHANGED anResult
  /\ UNCHANGED <<anInputs, anBlocks, anCounts>>
  /\ UNCHANGED otherThanN

\* await Promise.all(blockPromises) resolves, each block with the hashes the
\* chain lists or null; the inclusion loop runs over them
AnalyzeBlocksFetched ==
  /\ anPc = "fetch"
  /\ \E missing \in SUBSET {blockNumbers[i] : i \in 1..Len(blockNumbers)} :
       LET blocks == [i \in 1..Len(blockNumbers) |->
                        IF blockNumbers[i] \in missing
                          THEN NullBlock
                          ELSE Block(anChain[blockNumbers[i]])]
           c == CountBlocks(driver, ZeroCounts, blocks, 1, anReceipts,
                            anClaimed) IN
       /\ anBlocks' = blocks
       /\ IF c.threw
            THEN /\ anPc' = "threw"
                 /\ UNCHANGED anCounts
            ELSE /\ anPc' = "verified"
                 /\ verifiedTxCount' = c.verified
                 /\ verifiedSuccessfulCount' = c.successful
                 /\ totalBlockTxCount' = c.total
                 /\ ourTxCount' = c.ours
  /\ UNCHANGED <<anInputs, blockNumbers, anResult>>
  /\ UNCHANGED otherThanN

\* the rest of the function: the analysis with the counts is returned
AnalyzeReturn ==
  /\ anPc = "verified"
  /\ anPc' = "returned"
  /\ anResult' = "analysis"
  /\ UNCHANGED <<anInputs, blockNumbers, anBlocks, anCounts>>
  /\ UNCHANGED otherThanN

\* the hashes of ChainText placed in block n, in the order of ChainText
RECURSIVE BlockOf(_, _, _)
BlockOf(place, n, k) ==
  IF k > Len(ChainText) THEN <<>>
  ELSE (IF place[k] = n THEN <<ChainText[k]>> ELSE <<>>)
       \o BlockOf(place, n, k + 1)

\* the receipts of the claimed hashes that have one, in the order of
\* ClaimedHashes
RECURSIVE ReceiptsGot(_, _)
ReceiptsGot(got, k) ==
  IF k > Len(ClaimedHashes) THEN <<>>
  ELSE (IF got[k].blockNumber = 0 THEN <<>>
        ELSE <<[hash |-> ReceiptText[k], status |-> got[k].status,
                blockNumber |-> got[k].blockNumber]>>)
       \o ReceiptsGot(got, k + 1)

\* what the node answered for one claimed hash: no receipt (blockNumber 0)
\* or a receipt with a status and a block number
ReceiptAnswers ==
  {[status |-> 0, blockNumber |-> 0]}
    \cup [status : {0, 1}, blockNumber : 1..MaxBlocks]

AnalyzeInit ==
  /\ driver \in Drivers
  /\ BroadcastIdle
  /\ ConfirmIdle
  /\ GenIdle
  /\ ApproveIdle
  /\ ClassifyIdle
  /\ SignIdle
  /\ MainIdle
  /\ FundIdle
  /\ VerifyIdle
  /\ PickIdle
  /\ anPc = "call"
  /\ anClaimed = ClaimedHashes
  /\ \E got \in [1..Len(ClaimedHashes) -> ReceiptAnswers] :
       anReceipts = ReceiptsGot(got, 1)
  /\ \E place \in [1..Len(ChainText) -> 0..MaxBlocks] :
       anChain = [n \in 1..MaxBlocks |-> BlockOf(place, n, 1)]
  /\ blockNumbers = <<>>
  /\ anBlocks = <<>>
  /\ anResult = "none"
  /\ verifiedTxCount = 0
  /\ verifiedSuccessfulCount = 0
  /\ totalBlockTxCount = 0
  /\ ourTxCount = 0

AnalyzeNext ==
  \/ AnalyzeEnter
  \/ AnalyzeBlocksFetched
  \/ AnalyzeReturn

SpecAnalyze == AnalyzeInit /\ [][AnalyzeNext]_vars

\* the receipts whose hash a fetched block lists
IncludedReceipts ==
  {i \in 1..Len(anReceipts) :
     \E b \in 1..Len(anBlocks) :
       /\ ~anBlocks[b].isNull
       /\ \E k \in 1..Len(anBlocks[b].transactions) :
            ToLowerCase(anBlocks[b].transactions[k])
              = ToLowerCase(anReceipts[i].hash)}

\* C20: a claimed hash found in a fetched block whose receipt status is not
\* success counts as included (verifiedTxCount) and not as confirmed
\* (verifiedSuccessfulCount); so verifiedSuccessfulCount <= verifiedTxCount
\* <= the number of receipts for every set of receipts and block contents.
C20_IncludedNotConfirmed ==
  anPc \in {"verified", "returned"} /\ anResult # "null" =>
    /\ verifiedTxCount = Cardinality(IncludedReceipts)
    /\ verifiedSuccessfulCount =
         Cardinality({i \in IncludedReceipts : anReceipts[i].status = 1})
    /\ verifiedSuccessfulCount <= verifiedTxCount
    /\ verifiedTxCount <= Len(anReceipts)

\* both claimed hashes are in fetched blocks, one with a failed receipt
C20_Witness ==
  /\ anPc = "verified"
  /\ Len(anReceipts) = 2
  /\ anReceipts[1].status = 0
  /\ anReceipts[2].status = 1
  /\ verifiedTxCount = 2
  /\ verifiedSuccessfulCount = 1

(***************************************************************************)
(* analyzeBlockTPS after the block-inclusion check: the single-type driver *)
(* fetches a sample of the receipts' transactions one after the other,     *)
(* and with config.verifyAll every transaction through a pool of workers;  *)
(* the mixed driver does neither.  The function is called twice on the    *)
(* same inputs and endpoint answers, so that its two results can be        *)
(* compared.                                                               *)
(***************************************************************************)
SampleCap == 1
VerifyPool == 2
ExpectedValue == 1
SpanMs == 2000

\* address texts as the endpoint spells them, and the hashes of the receipts
SenderText == <<"0", "x", "A", "b">>
StrangerText == <<"0", "x", "C", "d">>
RecipientText == <<"0", "x", "E", "f">>
OtherText == <<"0", "x", "e", "e">>

\* expectedTxDetails of prepareAndSignTransactions
SenderAddresses == {ToLowerCase(SenderText)}
ExpectedRecipient == ToLowerCase(RecipientText)

Tx(from, to, value) ==
  [kind |-> "tx", from |-> from, to |-> to, value |-> value]

NoTx == [kind |-> "null", from |-> <<>>, to |-> Null, value |-> 0]
TxRejected == [kind |-> "reject", from |-> <<>>, to |-> Null, value |-> 0]

TxReceipt(status, blockNumber) ==
  [kind |-> "receipt", status |-> status, blockNumber |-> blockNumber]

NoTxReceipt == [kind |-> "null", status |-> 0, blockNumber |-> 0]
TxReceiptRejected == [kind |-> "reject", status |-> 0, blockNumber |-> 0]

\* expectedTxDetails.senderAddresses.has(tx.from.toLowerCase())
FromMatch(tx) == ToLowerCase(tx.from) \in SenderAddresses

\* tx.to?.toLowerCase() === expectedTxDetails.recipient
ToMatch_Any(tx) == TRUE

ToMatch(tx) == tx.to.t = "str" /\ ToLowerCase(tx.to.s) = ExpectedRecipient

\* tx.value === expectedTxDetails.value
ValueMatch(tx) == tx.value = ExpectedValue

\* txReceipt.blockNumber > 0
BlockConfirmed(rc) == rc.blockNumber > 0

\* the entry pushed on sampleResults for one sample whose two fetches
\* answered
SampleResult(idx, tx, rc) ==
  IF tx.kind = "tx" /\ rc.kind = "receipt"
    THEN IF /\ FromMatch(tx)
            /\ ToMatch(tx)
            /\ ValueMatch(tx)
            /\ IsSuccess(rc.status)
            /\ BlockConfirmed(rc)
           THEN [idx |-> idx, ok |-> TRUE, reason |-> "none"]
           ELSE [idx |-> idx, ok |-> FALSE,
                 reason |-> IF ~FromMatch(tx) THEN "from"
                            ELSE IF ~ToMatch(tx) THEN "to"
                            ELSE IF ~ValueMatch(tx) THEN "value"
                            ELSE IF ~IsSuccess(rc.status) THEN "status"
                            ELSE "block"]
    ELSE [idx |-> idx, ok |-> FALSE, reason |-> "not found"]

\* the entry pushed by the catch: reason is err.message
SampleError(idx) == [idx |-> idx, ok |-> FALSE, reason |-> "error"]

(* Math.floor((i / s) * n) in IEEE 754 double precision, for integers      *)
(* 0 <= i < s < 2^8 and 0 <= n < 2^9.  The quotient is rounded to 53       *)
(* significant bits, the product of that double and n is rounded to 53     *)
(* bits again, and the floor is taken of the result.  Numbers of more than *)
(* 31 bits are kept as functions from bit positions to bits.               *)

\* significant bits of a double
Precision == 53
\* bits of a limb of the exact product
LimbBits == 9

\* 2^k mod s
RECURSIVE Pow2Mod(_, _)
Pow2Mod(k, s) ==
  IF k = 0 THEN 1 % s
  ELSE LET h == Pow2Mod(k \div 2, s)
       IN (h * h * (IF k % 2 = 1 THEN 2 ELSE 1)) % s

\* digit k (from 1) after the binary point of i / s
FracBit(i, s, k) ==
  IF 2 * ((i * Pow2Mod(k - 1, s)) % s) >= s THEN 1 ELSE 0

\* the position of the first 1 after the binary point of i / s, i > 0
LeadBit(i, s) ==
  CHOOSE k \in 1..8 :
    FracBit(i, s, k) = 1 /\ \A j \in 1..(k - 1) : FracBit(i, s, j) = 0

\* the double nearest to i / s (ties to even), as the bits of M, bit 0 the
\* lowest, where the double is M / 2^(LeadBit + Precision - 1)
QuotientBits(i, s) ==
  LET lead == LeadBit(i, s)
      raw == [p \in 0..(Precision - 1) |-> FracBit(i, s, lead + Precision - 1 - p)]
      rest == (i * Pow2Mod(lead + Precision - 1, s)) % s
      up == 2 * rest > s \/ (2 * rest = s /\ raw[0] = 1)
      carryInto(p) == up /\ \A t \in 0..(p - 1) : raw[t] = 1
  IN [p \in 0..Precision |->
        IF p = Precision THEN (IF carryInto(p) THEN 1 ELSE 0)
        ELSE IF carryInto(p) THEN 1 - raw[p] ELSE raw[p]]

\* the value of bits lo .. lo + n - 1 of f, read as a number
RECURSIVE BitsValue(_, _, _)
BitsValue(f, lo, n) ==
  IF n = 0 THEN 0
  ELSE (IF lo \in DOMAIN f THEN f[lo] ELSE 0) + 2 * BitsValue(f, lo + 1, n - 1)

\* limbs l, l + 1, ... of the number of bits f times n, lowest first
RECURSIVE MulLimbs(_, _, _, _)
MulLimbs(f, n, l, carry) ==
  IF l * LimbBits > Precision + LimbBits THEN <<>>
  ELSE LET v == BitsValue(f, l * LimbBits, LimbBits) * n + carry
       IN <<v % (2 ^ LimbBits)>> \o MulLimbs(f, n, l + 1, v \div (2 ^ LimbBits))

\* Math.floor((i / s) * n)
FloorOfScaled(i, s, n) ==
  IF i = 0 \/ n = 0 THEN 0
  ELSE
    LET limbs == MulLimbs(QuotientBits(i, s), n, 0, 0)
        top == Len(limbs) * LimbBits - 1
        bit == [p \in 0..top |->
                  (limbs[p \div LimbBits + 1] \div (2 ^ (p % LimbBits))) % 2]
        \* the exact product is the number of bits `bit` over 2^scale
        scale == LeadBit(i, s) + Precision - 1
        length == 1 + CHOOSE p \in 0..top :
                        bit[p] = 1 /\ \A t \in (p + 1)..top : bit[t] = 0
        dropped == length - Precision
        whole == BitsValue(bit, scale, top + 1 - scale)
        up == /\ dropped > 0
              /\ bit[dropped - 1] = 1
              /\ \/ bit[dropped] = 1
                 \/ \E t \in 0..(dropped - 2) : bit[t] = 1
    IN IF up /\ \A t \in dropped..(scale - 1) : bit[t] = 1
         THEN whole + 1 ELSE whole

\* sampleSize = Math.min(10, receipts.length) and the sample indices
\* Math.floor((i / sampleSize) * receipts.length)
SampleSize(n) == Min(SampleCap, n)

SampleIndicesOf(size, n) ==
  [k \in 1..size |-> FloorOfScaled(k - 1, size, n)]

SampleIndices(n) == SampleIndicesOf(SampleSize(n), n)

\* let fullVerifiedCount = 0 at the start of a full verification
FreshCounter_Kept == fullVerifiedCount

FreshCounter == 0

ZeroTally ==
  [notFound |-> 0, noReceipt |-> 0, statusFailed |-> 0, notMined |-> 0,
   dataMismatch |-> 0, errorCount |-> 0]

\* what a worker does with a transaction and its receipt: the checks in the
\* code's order
FullOutcome(tx, rc) ==
  IF rc.kind = "reject" THEN "errorCount"
  ELSE IF rc.kind = "null" THEN "noReceipt"
  ELSE IF ~IsSuccess(rc.status) THEN "statusFailed"
  ELSE IF ~BlockConfirmed(rc) THEN "notMined"
  ELSE IF ~FromMatch(tx) \/ ~ToMatch(tx) \/ ~ValueMatch(tx)
         THEN "dataMismatch"
  ELSE "verified"

\* receipts with status !== 1, counted before the blocks are fetched
RevertedReceipts(rs) ==
  Cardinality({i \in 1..Len(rs) : ~IsSuccess(rs[i].status)})

\* the block time spans of the runs: one timestamp for every block, or two
\* seconds from the first block to the last
BlockSpans == {0, 2}

\* count / elapsed for the block time base, as <<numerator, denominator>>.
\* single driver: count / blockTimeSpanSeconds, and for a span of 0
\* count / (blockNumbers.length * 0.25); mixed driver: the span is
\* lastBlockData.timestamp - firstBlockData.timestamp || 1
BlockRate(count) ==
  IF driver = "single"
    THEN IF vBlockSpan > 0 THEN <<count, vBlockSpan>>
         ELSE <<count * 4, Cardinality(ReceiptBlocks(anReceipts))>>
    ELSE <<count, IF vBlockSpan = 0 THEN 1 ELSE vBlockSpan>>

\* the returned analysis, with the TPS figures as count over time span
Analysis(verified, successful, reverted, sVerified, sSize, sResults) ==
  [verifiedTxCount |-> verified,
   verifiedSuccessfulCount |-> successful,
   revertedTxCount |-> reverted,
   sampleVerified |-> sVerified,
   sampleSize |-> sSize,
   sampleResults |-> sResults,
   blockBasedTps |-> BlockRate(verified),
   confirmedBlockTps |-> BlockRate(successful),
   broadcastTps |-> <<verified * 1000, SpanMs>>,
   confirmedBroadcastTps |-> <<successful * 1000, SpanMs>>]

vInputs == <<verifyAll, vTxAnswers, vRcAnswers, vIncluded, vBlockSpan>>
vSample == <<sampleIndices, samplePos, sampleTx, sampleVerified,
             sampleResults>>
vPool == <<vNextIndex, fullVerifiedCount, fullVerifyErrors, vTally, vwPc,
           vwIdx, vwTx>>
vRuns == <<vRun, vFirst>>
nRest == <<anReceipts, anClaimed, anChain, blockNumbers, anBlocks,
           totalBlockTxCount, ourTxCount>>

\* the tail of the function: the counts are put in the analysis and returned
VerifyReturns(verified, successful, sVerified, sSize, sResults) ==
  /\ verifiedTxCount' = verified
  /\ verifiedSuccessfulCount' = successful
  /\ vResult' = Analysis(verified, successful,
                         IF driver = "single"
                           THEN RevertedReceipts(anReceipts)
                           ELSE vIncluded.reverted,
                         sVerified, sSize, sResults)
  /\ vPc' = "returned"
  /\ anPc' = "returned"
  /\ anResult' = "analysis"

VerifyContinues == UNCHANGED <<verifiedTxCount, verifiedSuccessfulCount,
                               vResult, anPc, anResult>>

\* the worker pool is created: each worker claims an index and asks for its
\* transaction before the next worker starts.  config.concurrentRequests is
\* at least 1 here: with none the broadcast sends nothing and the driver
\* exits before the analysis.
PoolStart ==
  \E pool \in 1..VerifyPool :
  LET workerCount == Min(pool, Len(anReceipts)) IN
  /\ fullVerifiedCount' = FreshCounter
  /\ fullVerifyErrors' = 0
  /\ vTally' = ZeroTally
  /\ vNextIndex' = workerCount
  /\ vwPc' = [w \in 1..workerCount |-> "tx"]
  /\ vwIdx' = [w \in 1..workerCount |-> w - 1]
  /\ vwTx' = [w \in 1..workerCount |-> NoTx]
  /\ vPc' = "full"
  /\ VerifyContinues

\* the sampling loop goes on with the next sample, or ends: then the full
\* verification starts when config.verifyAll is set, else the function
\* returns the block-inclusion counts
SampleAdvance(results, sVerified) ==
  /\ sampleResults' = results
  /\ sampleVerified' = sVerified
  /\ UNCHANGED sampleIndices
  /\ IF samplePos < Len(sampleIndices)
       THEN /\ samplePos' = samplePos + 1
            /\ vPc' = "sample_tx"
            /\ VerifyContinues
            /\ UNCHANGED vPool
       ELSE /\ UNCHANGED samplePos
            /\ IF verifyAll
                 THEN PoolStart
                 ELSE /\ VerifyReturns(verifiedTxCount,
                                       verifiedSuccessfulCount, sVerified,
                                       Len(sampleIndices), results)
                      /\ UNCHANGED vPool

\* after the block-inclusion check: the single-type driver picks its sample
\* and asks for the first sampled transaction; the mixed driver returns with
\* sampleVerified and sampleSize both Math.min(10, verifiedTxCount)
VerifyStart ==
  /\ vPc = "start"
  /\ IF driver = "single"
       THEN /\ sampleIndices' = SampleIndices(Len(anReceipts))
            /\ samplePos' = 1
            /\ sampleVerified' = 0
            /\ sampleResults' = <<>>
            /\ vPc' = "sample_tx"
            /\ VerifyContinues
       ELSE /\ VerifyReturns(verifiedTxCount, verifiedSuccessfulCount,
                             Min(SampleCap, verifiedTxCount),
                             Min(SampleCap, verifiedTxCount), <<>>)
            /\ UNCHANGED <<sampleIndices, samplePos, sampleVerified,
                           sampleResults>>
  /\ UNCHANGED <<vInputs, sampleTx, vPool, vRuns, nRest>>
  /\ UNCHANGED otherThanNV

\* await provider.getTransaction(receipt.hash) of a sample answers or throws
SampleTxAnswered ==
  /\ vPc = "sample_tx"
  /\ LET idx == sampleIndices[samplePos]
         tx == vTxAnswers[idx + 1] IN
     IF tx.kind = "reject"
       THEN /\ SampleAdvance(Append(sampleResults, SampleError(idx)),
                             sampleVerified)
            /\ UNCHANGED sampleTx
       ELSE /\ sampleTx' = tx
            /\ vPc' = "sample_receipt"
            /\ VerifyContinues
            /\ UNCHANGED <<sampleIndices, samplePos, sampleVerified,
                           sampleResults, vPool>>
  /\ UNCHANGED <<vInputs, vRuns, nRest>>
  /\ UNCHANGED otherThanNV

\* await provider.getTransactionReceipt(receipt.hash) of a sample answers or
\* throws; the sample is checked and its entry pushed
SampleReceiptAnswered ==
  /\ vPc = "sample_receipt"
  /\ LET idx == sampleIndices[samplePos]
         rc == vRcAnswers[idx + 1]
         entry == IF rc.kind = "reject" THEN SampleError(idx)
                  ELSE SampleResult(idx, sampleTx, rc) IN
     SampleAdvance(Append(sampleResults, entry),
                   IF entry.ok THEN sampleVerified + 1 ELSE sampleVerified)
  /\ UNCHANGED <<vInputs, sampleTx, vRuns, nRest>>
  /\ UNCHANGED otherThanNV

\* nextIndex++ of the verify worker: the value stored back
ClaimNext_Same(n) == n
ClaimNext(n) == n + 1

\* while (nextIndex < receipts.length) { const idx = nextIndex++; ... }
VerifyLoopHead(w) ==
  IF vNextIndex < Len(anReceipts)
    THEN /\ vwIdx' = [vwIdx EXCEPT ![w] = vNextIndex]
         /\ vNextIndex' = ClaimNext(vNextIndex)
         /\ vwPc' = [vwPc EXCEPT ![w] = "tx"]
    ELSE /\ vwPc' = [vwPc EXCEPT ![w] = "done"]
         /\ UNCHANGED <<vwIdx, vNextIndex>>

\* one transaction is settled by a worker: verified, or one failure counted
VerifySettle(w, outcome) ==
  /\ IF outcome = "verified"
       THEN /\ fullVerifiedCount' = fullVerifiedCount + 1
            /\ UNCHANGED <<fullVerifyErrors, vTally>>
       ELSE /\ fullVerifyErrors' = fullVerifyErrors + 1
            /\ vTally' = [vTally EXCEPT ![outcome] = @ + 1]
            /\ UNCHANGED fullVerifiedCount
  /\ VerifyLoopHead(w)

\* a worker's await provider.getTransaction(receipt.hash) answers or throws
VerifyTxAnswered(w) ==
  /\ vPc = "full"
  /\ w \in DOMAIN vwPc
  /\ vwPc[w] = "tx"
  /\ LET tx == vTxAnswers[vwIdx[w] + 1] IN
     IF tx.kind = "reject"
       THEN VerifySettle(w, "errorCount") /\ UNCHANGED vwTx
       ELSE IF tx.kind = "null"
              THEN VerifySettle(w, "notFound") /\ UNCHANGED vwTx
              ELSE /\ vwTx' = [vwTx EXCEPT ![w] = tx]
                   /\ vwPc' = [vwPc EXCEPT ![w] = "receipt"]
                   /\ UNCHANGED <<vNextIndex, fullVerifiedCount,
                                  fullVerifyErrors, vTally, vwIdx>>
  /\ VerifyContinues
  /\ UNCHANGED <<vPc, vInputs, vSample, vRuns, nRest>>
  /\ UNCHANGED otherThanNV

\* a worker's await provider.getTransactionReceipt(receipt.hash) answers or
\* throws
VerifyReceiptAnswered(w) ==
  /\ vPc = "full"
  /\ w \in DOMAIN vwPc
  /\ vwPc[w] = "receipt"
  /\ VerifySettle(w, FullOutcome(vwTx[w], vRcAnswers[vwIdx[w] + 1]))
  /\ VerifyContinues
  /\ UNCHANGED <<vPc, vInputs, vSample, vwTx, vRuns, nRest>>
  /\ UNCHANGED otherThanNV

\* await Promise.all(workers) resolves: the full count replaces both counts
VerifyPoolDone ==
  /\ vPc = "full"
  /\ \A w \in DOMAIN vwPc : vwPc[w] = "done"
  /\ VerifyReturns(fullVerifiedCount, fullVerifiedCount, sampleVerified,
                   Len(sampleIndices), sampleResults)
  /\ UNCHANGED <<vInputs, vSample, vPool, vRuns, nRest>>
  /\ UNCHANGED otherThanNV

\* analyzeBlockTPS is called again with the same arguments, and its
\* block-inclusion check gives the same counts again
VerifyAgain ==
  /\ vPc = "returned"
  /\ vRun = 1
  /\ vRun' = 2
  /\ vFirst' = vResult
  /\ vPc' = "start"
  /\ anPc' = "verified"
  /\ verifiedTxCount' = vIncluded.verified
  /\ verifiedSuccessfulCount' = vIncluded.successful
  /\ UNCHANGED <<vInputs, vSample, vPool, vResult, anResult, nRest>>
  /\ UNCHANGED otherThanNV

\* what getTransaction and getTransactionReceipt may answer for the first
\* receipt, and the fewer answers for the second
TxAnswers ==
  {NoTx, TxRejected,
   Tx(SenderText, Str(RecipientText), ExpectedValue),
   Tx(SenderText, Str(OtherText), ExpectedValue),
   Tx(SenderText, Null, ExpectedValue),
   Tx(StrangerText, Str(RecipientText), ExpectedValue),
   Tx(StrangerText, Str(OtherText), ExpectedValue),
   Tx(SenderText, Str(RecipientText), ExpectedValue + 1),
   Tx(SenderText, Str(OtherText), ExpectedValue + 1)}

TxReceiptAnswers ==
  {NoTxReceipt, TxReceiptRejected, TxReceipt(1, 5), TxReceipt(0, 5),
   TxReceipt(1, 0), TxReceipt(0, 0)}

SecondAnswers ==
  {<<Tx(SenderText, Str(RecipientText), ExpectedValue), TxReceipt(1, 6)>>,
   <<Tx(SenderText, Str(OtherText), ExpectedValue), TxReceipt(1, 6)>>,
   <<Tx(SenderText, Str(RecipientText), ExpectedValue), TxReceipt(0, 6)>>,
   <<NoTx, TxReceipt(1, 6)>>,
   <<TxRejected, TxReceipt(1, 6)>>}

ThirdAnswers ==
  {<<Tx(SenderText, Str(RecipientText), ExpectedValue), TxReceipt(1, 6)>>,
   <<Tx(SenderText, Str(RecipientText), ExpectedValue), NoTxReceipt>>}

\* the receipts waitForConfirmations collected, and the receipts the
\* block-inclusion check found in the blocks
VerifiedReceipts ==
  <<[hash |-> ReceiptText[1], status |-> 1, blockNumber |-> 5],
    [hash |-> ReceiptText[2], status |-> 0, blockNumber |-> 6],
    [hash |-> <<"c", "3">>, status |-> 1, blockNumber |-> 6]>>

InclusionCounts(found) ==
  [verified |-> Cardinality(found),
   successful |-> Cardinality({i \in found :
                                 IsSuccess(VerifiedReceipts[i].status)}),
   reverted |-> Cardinality({i \in found :
                               ~IsSuccess(VerifiedReceipts[i].status)})]

VerifyInit ==
  /\ driver \in Drivers
  /\ BroadcastIdle
  /\ ConfirmIdle
  /\ GenIdle
  /\ ApproveIdle
  /\ ClassifyIdle
  /\ SignIdle
  /\ MainIdle
  /\ FundIdle
  /\ PickIdle
  /\ anPc = "verified"
  /\ anReceipts = VerifiedReceipts
  /\ anClaimed = ClaimedHashes
  /\ anChain = <<>>
  /\ blockNumbers = <<>>
  /\ anBlocks = <<>>
  /\ anResult = "none"
  /\ \E found \in {{1, 2, 3}, {1}} :
       /\ vIncluded = InclusionCounts(found)
       /\ verifiedTxCount = InclusionCounts(found).verified
       /\ verifiedSuccessfulCount = InclusionCounts(found).successful
  /\ totalBlockTxCount = 0
  /\ ourTxCount = 0
  /\ vPc = "start"
  /\ verifyAll \in BOOLEAN
  /\ vBlockSpan \in BlockSpans
  /\ \E first \in TxAnswers \X TxReceiptAnswers, second \in SecondAnswers,
        third \in ThirdAnswers :
       /\ vTxAnswers = <<first[1], second[1], third[1]>>
       /\ vRcAnswers = <<first[2], second[2], third[2]>>
  /\ sampleIndices = <<>>
  /\ samplePos = 0
  /\ sampleTx = NoTx
  /\ sampleVerified = 0
  /\ sampleResults = <<>>
  /\ vNextIndex = 0
  /\ fullVerifiedCount = 0
  /\ fullVerifyErrors = 0
  /\ vTally = ZeroTally
  /\ vwPc = <<>>
  /\ vwIdx = <<>>
  /\ vwTx = <<>>
  /\ vRun = 1
  /\ vFirst = <<>>
  /\ vResult = <<>>

VerifyNext ==
  \/ VerifyStart
  \/ SampleTxAnswered
  \/ SampleReceiptAnswered
  \/ \E w \in 1..VerifyPool : VerifyTxAnswered(w)
  \/ \E w \in 1..VerifyPool : VerifyReceiptAnswered(w)
  \/ VerifyPoolDone
  \/ VerifyAgain

SpecVerify == VerifyInit /\ [][VerifyNext]_vars

\* what the endpoint answered for the sample at position k of sampleResults
SampledTx(k) == vTxAnswers[sampleResults[k].idx + 1]

SampledReceipt(k) == vRcAnswers[sampleResults[k].idx + 1]

RecipientDiffers(tx) ==
  tx.to = Null \/ ToLowerCase(tx.to.s) # ToLowerCase(RecipientText)

\* the reason a sample is to be recorded with: "not found" when the
\* transaction or its receipt is missing, else the first failing check in
\* the order from, to, value, status, block, and "none" when all pass
ExpectedReason(tx, rc) ==
  IF tx.kind = "null" \/ rc.kind = "null" THEN "not found"
  ELSE IF ToLowerCase(tx.from) # ToLowerCase(SenderText) THEN "from"
  ELSE IF RecipientDiffers(tx) THEN "to"
  ELSE IF tx.value # ExpectedValue THEN "value"
  ELSE IF rc.status # 1 THEN "status"
  ELSE IF rc.blockNumber <= 0 THEN "block"
  ELSE "none"

\* C21: in the sample verification a transaction found on chain with a
\* known sender and success status whose recipient differs from the
\* expected one is not counted in sampleVerified and is recorded with
\* reason 'to'; in general the recorded reason is the first failing check
\* in the order from, to, value, status, block, and 'not found' when the
\* transaction or its receipt is missing.
C21_SampleReasons ==
  /\ \A k \in 1..Len(sampleResults) :
       SampledTx(k).kind # "reject" /\ SampledReceipt(k).kind # "reject" =>
         /\ sampleResults[k].reason
              = ExpectedReason(SampledTx(k), SampledReceipt(k))
         /\ sampleResults[k].ok <=> sampleResults[k].reason = "none"
  /\ sampleVerified
       = Cardinality({k \in 1..Len(sampleResults) : sampleResults[k].ok})

\* a sample with the right sender, value and status and another recipient
\* was recorded with reason 'to' and not counted
C21_Witness ==
  /\ Len(sampleResults) >= 1
  /\ SampledTx(1) = Tx(SenderText, Str(OtherText), ExpectedValue)
  /\ SampledReceipt(1) = TxReceipt(1, 5)
  /\ sampleResults[1].reason = "to"
  /\ ~sampleResults[1].ok
  /\ sampleVerified = 0

\* the receipts whose transaction passes every per-transaction check
PassingReceipts ==
  {i \in 1..Len(anReceipts) :
     /\ vTxAnswers[i].kind = "tx"
     /\ vRcAnswers[i].kind = "receipt"
     /\ ExpectedReason(vTxAnswers[i], vRcAnswers[i]) = "none"}

\* C22: with config.verifyAll set, in both drivers the reported verified
\* count is the number of receipts whose transaction passed every check
\* (transaction and receipt found, status success, block number positive,
\* sender known, recipient and value as expected) in place of the
\* block-inclusion count; without it the reported count is the
\* block-inclusion count.
C22_VerifyAllSupersedes ==
  vPc = "returned" =>
    vResult.verifiedTxCount = IF verifyAll
                                THEN Cardinality(PassingReceipts)
                                ELSE vIncluded.verified

---------------------------------------------------------------------------
(* Claims about the validation and the counts of generatePayload *)

\* the mix asks for a type (a percentage above zero) whose addresses are not
\* all configured
RequestedWithoutAddress ==
  /\ ~txMix.nan
  /\ \/ txMix.tokenTransfer > 0 /\ ~contracts.token
     \/ txMix.swap > 0
        /\ (~contracts.router \/ ~contracts.weth \/ ~contracts.token)

\* generatePayload went past its validation
PastValidation == driver = "mixed" /\ gPc \in {"nonces", "fee", "built"}

\* C24: generatePayload throws, returning no descriptors, whenever the mix
\* has a token percentage above zero and no token address, or a swap
\* percentage above zero and the router, WETH or token address missing; and
\* it does not throw for a missing address of a type whose percentage is zero.
C24_FailsIffRequestedTypeLacksAddress ==
  /\ PastValidation => ~RequestedWithoutAddress
  /\ gPc = "threw" => RequestedWithoutAddress /\ unsignedTxs = <<>>

\* generatePayload has computed its three counts
CountsComputed == driver = "mixed" /\ gPc \in {"threw", "nonces", "fee", "built"}

\* |n - txCount * percentage / 100| <= 1, in hundredths
WithinOne(n, percentage) ==
  /\ 100 * n - txCount * percentage <= 100
  /\ txCount * percentage - 100 * n <= 100

\* C28: for every txCount and every mix parseTxMix returns (with numeric
\* percentages), each of ethCount, tokenCount and swapCount of
\* generatePayload is within 1 of txCount * percentage / 100, and none of
\* them is negative.
C28_CountsWithinOneOfProportion ==
  CountsComputed /\ ~txMix.nan =>
    LET counts == TypeCounts(txCount, txMix) IN
    /\ WithinOne(counts.ethCount, txMix.ethTransfer)
    /\ WithinOne(counts.tokenCount, txMix.tokenTransfer)
    /\ WithinOne(counts.swapCount, txMix.swap)
    /\ counts.ethCount >= 0
    /\ counts.tokenCount >= 0
    /\ counts.swapCount >= 0

\* C29: a type whose percentage is 0 gets no descriptor, whatever txCount;
\* with swap at 0% no swap descriptor is built and generatePayload does not
\* throw for a missing router or WETH address.
C29_ZeroPercentZeroDescriptors ==
  /\ CountsComputed /\ ~txMix.nan =>
       LET counts == TypeCounts(txCount, txMix) IN
       /\ txMix.ethTransfer = 0 => counts.ethCount = 0
       /\ txMix.tokenTransfer = 0 => counts.tokenCount = 0
       /\ txMix.swap = 0 => counts.swapCount = 0
  /\ driver = "mixed" /\ gPc = "built" =>
       \A i \in 1..Len(unsignedTxs) :
         /\ unsignedTxs[i].txType = "eth_transfer" => txMix.ethTransfer > 0
         /\ unsignedTxs[i].txType = "token_transfer" => txMix.tokenTransfer > 0
         /\ unsignedTxs[i].txType = "swap" => txMix.swap > 0
  /\ gPc = "threw" /\ ~txMix.nan /\ txMix.swap = 0 => ~contracts.token

---------------------------------------------------------------------------
(* Claims about the pool of broadcast workers *)

\* the submissions sent whose response has not been handled yet: every
\* handled one added one to successCount or to errorCount
SubmissionsInFlight == Len(rpcLog) - (successCount + errorCount)

\* C25: at every moment of fireAndForgetBroadcast the number of
\* eth_sendRawTransaction submissions sent and not yet answered is at most
\* config.concurrentRequests, for every queue length and interleaving.
C25_InFlightAtMostPool == SubmissionsInFlight <= concurrentRequests

\* the whole pool is waiting for the endpoint again after an earlier
\* answer: a worker went on to the third envelope
C25_Witness ==
  /\ concurrentRequests = 2
  /\ SubmissionsInFlight = 2
  /\ successCount + errorCount = 1
  /\ Len(rpcLog) = 3

\* response.json() resolving with the hash of the envelope
JsonResolveHash(w) == successCount' = successCount + 1 /\ JsonResolve(w)

\* the run of fireAndForgetBroadcast in which every ready continuation is
\* run and every fetch() and response.json() settles: the event loop leaves
\* no runnable step waiting for ever.  For an await, weak fairness of one
\* of its outcomes says no more than that it settles: any other outcome of
\* the same await disables the one named.
SpecBroadcastFair ==
  /\ BroadcastInit
  /\ [][BroadcastNext]_vars
  /\ WF_vars(StartWorker)
  /\ WF_vars(AwaitAll)
  /\ WF_vars(\E w \in 1..concurrentRequests : FetchResolve(w))
  /\ WF_vars(\E w \in 1..concurrentRequests : JsonResolveHash(w))
  /\ WF_vars(BroadcastReturn)

\* at the return every worker has left its loop, on finding the queue
\* exhausted, and every submission sent has its outcome counted
ReturnedAfterDrain ==
  bPc = "returned" =>
    /\ \A w \in 1..concurrentRequests : wPc[w] = "done"
    /\ concurrentRequests >= 1 => nextIndex >= Len(signedTxs)
    /\ SubmissionsInFlight = 0
    /\ \A i \in 1..Len(rpcLog) :
         Cardinality({w \in 1..concurrentRequests :
                        wPc[w] \in {"fetch", "json"} /\ wIdx[w] = rpcLog[i].idx})
           = 0

\* C26: fireAndForgetBroadcast returns only after every worker has found
\* the queue exhausted and every claimed envelope has its outcome recorded,
\* so that nothing is in flight when it returns; and, every RPC call
\* returning, it does return.
C26_ReturnsAfterDrain ==
  /\ []ReturnedAfterDrain
  /\ <>(bPc = "returned")

\* a returned broadcast in which two workers drained a queue of three
C26_Witness ==
  /\ bPc = "returned"
  /\ concurrentRequests = 2
  /\ Len(signedTxs) = 3
  /\ Len(rpcLog) = 3
  /\ \E i, j \in 1..Len(rpcLog) : rpcLog[i].w # rpcLog[j].w
  /\ successCount + errorCount = 3

---------------------------------------------------------------------------
(* Claims about the batches of the confirmation tracker *)

\* hash h is queried in the poll round under way
InBatch(h) == \E i \in 1..Len(checkBatch) : checkBatch[i] = h

IsPending(h) == \E i \in 1..Len(pending) : pending[i] = h

\* the rounds after which batches of CheckBatchSize taken in turn have
\* queried every tracked hash once
RoundsToCover == CeilDiv(MaxHashes, CheckBatchSize)

\* the timeout ended the call before that many rounds were started
TimeoutFiredFirst == cPc = "returned" /\ pollRounds < RoundsToCover

\* C27: in the mixed driver, whose rounds query the first CheckBatchSize
\* pending hashes, a tracked hash that has its receipt when the first round
\* is under way is queried in some round, unless the timeout ends the call
\* first; also when the hashes ahead of it never get a receipt.
C27_ReceiptEventuallyPolled ==
  \A h \in Hashes :
    (driver = "mixed" /\ cPc = "polling" /\ pollRounds = 1
       /\ h \in mined /\ IsPending(h))
      ~> (InBatch(h) \/ TimeoutFiredFirst)

---------------------------------------------------------------------------
(* Claims about the single driver's distribution over the senders *)

\* C30: prepareAndSignTransactions of the single driver spreads the
\* descriptors as evenly as integer division allows: whatever txCount and
\* the number of funded senders, the descriptor counts of two funded senders
\* differ by at most 1.
C30_SingleEvenSpread ==
  (driver = "single" /\ gPc = "built") =>
    \A s, t \in Senders :
      Len(DescriptorsOf(s)) - Len(DescriptorsOf(t)) <= 1

---------------------------------------------------------------------------
(* Claims about the letter case of the matched substrings *)

\* the message contains pat in some letter case
ContainsAnyCase(v, pat) == Includes(ToLowerCase(v.s), ToLowerCase(pat))

\* the message contains none of the documented substrings that take
\* priority over "timeout"
NothingBeforeTimeout(v) == \A i \in DocumentedIn(v) : i >= 9

\* C31: categorizeError matches in any letter case, the Node error codes
\* included: a message with ETIMEDOUT and no substring of higher priority is
\* classified timeout, one with ECONNREFUSED (and neither a substring of
\* higher priority nor a timeout one) connection_error, and a missing or
\* empty message unknown.
C31_ErrorCodesAnyCase ==
  clsPc = "returned" =>
    /\ ~Truthy(clsMsg) => clsCategory = "unknown"
    /\ (Truthy(clsMsg) /\ ContainsAnyCase(clsMsg, PatETIMEDOUT)
          /\ NothingBeforeTimeout(clsMsg)) => clsCategory = "timeout"
    /\ (Truthy(clsMsg) /\ ContainsAnyCase(clsMsg, PatECONNREFUSED)
          /\ NothingBeforeTimeout(clsMsg)
          /\ ~ContainsAnyCase(clsMsg, PatETIMEDOUT)
          /\ ~ContainsAnyCase(clsMsg, PatTimeout)) =>
         clsCategory = "connection_error"

---------------------------------------------------------------------------
(* Claims about the reported sample *)

\* the positions of the sample whose transaction passes every check
PassingSamples ==
  {k \in 1..SampleSize(Len(anReceipts)) :
     SampleIndices(Len(anReceipts))[k] + 1 \in PassingReceipts}

\* a sampled transaction the endpoint returns with another recipient
WrongRecipientSampled ==
  \E k \in 1..SampleSize(Len(anReceipts)) :
    LET tx == vTxAnswers[SampleIndices(Len(anReceipts))[k] + 1] IN
    tx.kind = "tx" /\ RecipientDiffers(tx)

\* C32: in both drivers the reported sampleSize is the number of receipts
\* sampled and fetched by hash, and the reported sampleVerified counts the
\* sampled transactions that passed the sender, recipient, value, status
\* and block checks; a sampled transaction with a wrong recipient makes
\* sampleVerified < sampleSize.
C32_SampleFiguresAreChecked ==
  vPc = "returned" =>
    /\ vResult.sampleSize = SampleSize(Len(anReceipts))
    /\ vResult.sampleVerified = Cardinality(PassingSamples)
    /\ WrongRecipientSampled => vResult.sampleVerified < vResult.sampleSize

---------------------------------------------------------------------------
(* Claims about the pool of verify workers *)

\* the workers that hold a receipt whose outcome is not counted yet
VerifyBusy == {w \in DOMAIN vwPc : vwPc[w] \in {"tx", "receipt"}}

TallySum ==
  vTally.notFound + vTally.noReceipt + vTally.statusFailed
    + vTally.notMined + vTally.dataMismatch + vTally.errorCount

\* no receipt is held by two workers, the receipts claimed so far are the
\* counted ones and the held ones, and every failure has one reason
VerifyOnce ==
  vPc = "full" \/ (vPc = "returned" /\ verifyAll /\ driver = "single") =>
    /\ \A v, w \in VerifyBusy : vwIdx[v] = vwIdx[w] => v = w
    /\ \A w \in VerifyBusy : vwIdx[w] \in 0..(vNextIndex - 1)
    /\ vNextIndex <= Len(anReceipts)
    /\ fullVerifiedCount + fullVerifyErrors + Cardinality(VerifyBusy)
         = vNextIndex
    /\ TallySum = fullVerifyErrors
    /\ vPc = "returned" =>
         /\ VerifyBusy = {}
         /\ fullVerifiedCount + fullVerifyErrors = Len(anReceipts)

\* a worker that takes a receipt takes the first one nobody took
VerifyClaimStep ==
  vPc = "full" /\ vPc' = "full" =>
    \A w \in DOMAIN vwPc :
      vwIdx'[w] # vwIdx[w] =>
        /\ vwIdx'[w] = vNextIndex
        /\ vNextIndex' = vNextIndex + 1
        /\ \A v \in DOMAIN vwPc \ {w} : vwIdx'[v] = vwIdx[v]

\* C33: in the single driver's full verification, whatever the pool size and
\* the interleaving, every receipt is examined by exactly one verify worker;
\* when the pool is done fullVerifiedCount + fullVerifyErrors is the number
\* of receipts and notFound + noReceipt + statusFailed + notMined +
\* dataMismatch + errorCount is fullVerifyErrors.
C33_EachReceiptVerifiedOnce ==
  /\ []VerifyOnce
  /\ [][VerifyClaimStep]_vars

\* a pool of two finished three receipts: one verified, two failures with
\* different reasons
C33_Witness ==
  /\ vPc = "returned"
  /\ verifyAll
  /\ driver = "single"
  /\ Len(vwPc) = 2
  /\ fullVerifiedCount = 1
  /\ fullVerifyErrors = 2
  /\ vTally.statusFailed = 1
  /\ vTally.notFound = 1

---------------------------------------------------------------------------
(* analyzeBlockTPS choosing the sample, as a function of the number of    *)
(* receipts                                                               *)

\* Math.min(10, receipts.length)
SampleLimit == 10
\* most receipts of a choice
MaxReceiptCount == 100

\* const sampleSize = ...; for (let i = 0; i < sampleSize; i++)
\*   sampleIndices.push(Math.floor((i / sampleSize) * receipts.length))
PickSample ==
  /\ pkPc = "pick"
  /\ pkIndices' = SampleIndicesOf(Min(SampleLimit, pkReceipts), pkReceipts)
  /\ pkPc' = "picked"
  /\ UNCHANGED pkReceipts
  /\ UNCHANGED otherThanP

PickInit ==
  /\ driver = "single"
  /\ pkReceipts \in 1..MaxReceiptCount
  /\ pkIndices = <<>>
  /\ pkPc = "pick"
  /\ BroadcastIdle
  /\ ConfirmIdle
  /\ GenIdle
  /\ ApproveIdle
  /\ ClassifyIdle
  /\ SignIdle
  /\ MainIdle
  /\ FundIdle
  /\ AnalyzeIdle
  /\ VerifyIdle

PickNext == PickSample

SpecPick == PickInit /\ [][PickNext]_vars

\* the indices are in order, apart, inside the receipts and start at 0
SpreadInOrder ==
  pkPc = "picked" =>
    /\ Len(pkIndices) = Min(SampleLimit, pkReceipts)
    /\ pkIndices[1] = 0
    /\ \A k \in 1..(Len(pkIndices) - 1) : pkIndices[k] < pkIndices[k + 1]
    /\ \A k \in 1..Len(pkIndices) : pkIndices[k] \in 0..(pkReceipts - 1)

\* C34: for R >= 1 receipts the sample indices are floor(i * R / s) for
\* i = 0..s-1 with s = min(10, R); they are strictly increasing, pairwise
\* distinct, within 0..R-1, and the first is 0.
C34_SampleIndicesFloor ==
  pkPc = "picked" =>
    /\ \A k \in 1..Len(pkIndices) :
         pkIndices[k] = ((k - 1) * pkReceipts) \div Min(SampleLimit, pkReceipts)
    /\ SpreadInOrder

---------------------------------------------------------------------------
(* Claims about the reported rates *)

\* a / b <= c / d for rates <<a, b>> and <<c, d>> with positive b and d
RateAtMost(r, q) == r[1] * q[2] <= q[1] * r[2]

\* C35: analyzeBlockTPS reports two rates for the block-timestamp span and
\* two for the broadcast span, each a count over the elapsed time of its
\* base; the included rates count the transactions found on chain whatever
\* their status, with full verification too, the confirmed rates count the
\* successful ones, so that each confirmed rate is at most the included
\* rate of its base; a block-timestamp span of 0 gives no division by zero.
C35_IncludedAndConfirmedRates ==
  vPc = "returned" =>
    /\ vResult.blockBasedTps[2] > 0
    /\ vResult.confirmedBlockTps[2] > 0
    /\ vBlockSpan > 0 =>
         /\ vResult.blockBasedTps = <<vIncluded.verified, vBlockSpan>>
         /\ vResult.confirmedBlockTps
              = <<vResult.verifiedSuccessfulCount, vBlockSpan>>
    /\ vResult.broadcastTps = <<vIncluded.verified * 1000, SpanMs>>
    /\ vResult.confirmedBroadcastTps
         = <<vResult.verifiedSuccessfulCount * 1000, SpanMs>>
    /\ RateAtMost(vResult.confirmedBlockTps, vResult.blockBasedTps)
    /\ RateAtMost(vResult.confirmedBroadcastTps, vResult.broadcastTps)

\* the positions of main in program order
Phases ==
  <<"connect", "balance", "setup", "fund", "funded", "rest", "prepare",
    "sign", "prepared", "broadcast", "sent", "confirm", "analyze", "report",
    "reported">>

PhaseRank(pc) == CHOOSE k \in 1..Len(Phases) : Phases[k] = pc

\* main moves forward through its positions or leaves the process
PhaseForward ==
  mPc' # mPc => \/ mPc' = "end"
                \/ PhaseRank(mPc') > PhaseRank(mPc)

\* each phase's result is written in that phase alone
PhaseWrites ==
  /\ mSenders' # mSenders => mPc = "fund"
  /\ mUnsigned' # mUnsigned => mPc = "prepare"
  /\ mSigned' # mSigned => mPc = "sign"
  /\ mHashes' # mHashes => mPc = "broadcast"
  /\ mReceipts' # mReceipts => mPc = "confirm"
  /\ mAnalysis' # mAnalysis => mPc = "analyze"

\* past the signing loop every batch has been started and awaited
SignedBeforeBroadcast ==
  (mPc \in {"prepared", "broadcast", "sent", "confirm", "analyze", "report",
            "reported"}) => mCursor >= mUnsigned

\* C36: the driver runs its phases in the order fund, generate, sign,
\* broadcast, confirm, verify, report: main only moves forward through
\* them, nothing is signed before the descriptors are generated or outside
\* the signing loop, the broadcast starts only when every signing batch has
\* been awaited, and hashes, receipts and analysis are each written in their
\* own phase.
C36_PhasesInOrder ==
  /\ []SignedBeforeBroadcast
  /\ [][PhaseForward /\ PhaseWrites]_vars

C36_Witness ==
  /\ mPc = "reported"
  /\ mUnsigned = 4
  /\ mCursor >= 4
  /\ mSigned = 3
  /\ mHashes = 2
  /\ mReceipts = 1
  /\ mAnalysis = "verified"

---------------------------------------------------------------------------
(* Claims about the returned error-type mapping *)

\* a step that counts a failure adds one to exactly one category, and the
\* tally changes in no other step
TalliedUnderOne ==
  IF errorCount' = errorCount
    THEN errorTypes' = errorTypes
    ELSE /\ errorCount' = errorCount + 1
         /\ \E c \in Categories :
              /\ errorTypes'[c] = errorTypes[c] + 1
              /\ \A o \in Categories \ {c} : errorTypes'[o] = errorTypes[o]

\* C37: when fireAndForgetBroadcast returns, the counts of the returned
\* error-type mapping sum to errorCount, and every failed submission (error
\* response or thrown exception) was counted under exactly one category,
\* whatever the interleaving of the workers.
C37_ErrorTypesSumToErrorCount ==
  /\ [](bPc = "returned" =>
          TallyTotal(ErrorTypesObj, DOMAIN ErrorTypesObj) = errorCount)
  /\ [][TalliedUnderOne]_vars

\* C37 happens: two workers, three failures in two categories, one of them
\* counted twice
C37_Witness ==
  /\ bPc = "returned"
  /\ concurrentRequests = 2
  /\ errorCount = 3
  /\ Cardinality(DOMAIN ErrorTypesObj) = 2
  /\ "nonce_too_low" \in DOMAIN ErrorTypesObj
  /\ ErrorTypesObj["nonce_too_low"] = 2

---------------------------------------------------------------------------
(* Claims about the pending set and the collected receipts *)

\* between two poll rounds: a round has just started (nothing answered yet),
\* the loop sleeps, or the call has returned
AtRoundBoundary ==
  \/ cPc \in {"sleeping", "returned"}
  \/ /\ cPc = "polling"
     /\ \A i \in 1..Len(checkBatch) : query[checkBatch[i]] = "inflight"

PendingOf(h) == {i \in 1..Len(pending) : pending[i] = h}

\* C38: at every poll-round boundary and at return of waitForConfirmations
\* each distinct tracked hash is either pending or has exactly one collected
\* receipt, never both and never two receipts: receipts + pending = the
\* number of distinct tracked hashes.
C38_PendingOrOneReceipt ==
  AtRoundBoundary =>
    /\ Len(receipts) + Len(pending) = Cardinality(TrackedSet)
    /\ \A h \in TrackedSet :
         Cardinality(PendingOf(h)) + Cardinality(ReceiptsOf(h)) = 1
    /\ \A i \in 1..Len(receipts) : receipts[i].hash \in TrackedSet

\* C38 happens: between two rounds of the mixed driver one hash of a list
\* that names a hash twice has its receipt and two are still pending
C38_Witness ==
  /\ cPc = "sleeping"
  /\ driver = "mixed"
  /\ Len(receipts) = 1
  /\ Len(pending) = 2
  /\ Len(trackedHashes) > Cardinality(TrackedSet)
  /\ pollRounds >= 2

---------------------------------------------------------------------------
(* Claims about the order of submission *)

\* the envelope of the k-th submission started
Submitted(k) == QueueAt(signedTxs, rpcLog[k].idx)

\* the submissions started so far are, sender by sender, in strictly
\* increasing nonce order
NonceOrderPerSender ==
  \A i, j \in 1..Len(rpcLog) :
    (i < j /\ Submitted(i).expectedFrom = Submitted(j).expectedFrom) =>
      Submitted(i).nonce < Submitted(j).nonce

\* a single worker starts a submission only when every earlier one has been
\* answered or has failed, so the endpoint receives them in the order they
\* were started
OneAtATime ==
  (concurrentRequests = 1 /\ Len(rpcLog') > Len(rpcLog)) =>
    successCount' + errorCount' = Len(rpcLog)

\* C39: for every sender and every pool size the workers start submitting
\* that sender's envelopes in strictly increasing nonce order; with a pool
\* of one worker the endpoint also receives them in that order.
C39_SenderNoncesAscending ==
  /\ []NonceOrderPerSender
  /\ [][OneAtATime]_vars

\* C39 happens: two workers have submitted the two envelopes of one sender,
\* one each, and the broadcast has returned
C39_Witness ==
  /\ bPc = "returned"
  /\ concurrentRequests = 2
  /\ \E i, j \in 1..Len(rpcLog) :
       /\ i < j
       /\ rpcLog[i].w # rpcLog[j].w
       /\ Submitted(i).expectedFrom = Submitted(j).expectedFrom
       /\ Submitted(i).nonce < Submitted(j).nonce

---------------------------------------------------------------------------
(* Claims about a pool larger than the queue *)

\* config.concurrentRequests exceeds signedTxs.length
SurplusWorkers == concurrentRequests > Len(signedTxs)

\* the workers that have claimed an index
Claimers == {rpcLog[i].w : i \in 1..Len(rpcLog)}

\* the shared index stays within the queue, nothing is read past its end,
\* at most one worker per envelope ever claims, and at return every
\* envelope is accounted for and the workers without a claim have finished
\* with nothing
SurplusClaimNothing ==
  /\ nextIndex <= Len(signedTxs)
  /\ \A i \in 1..Len(rpcLog) : rpcLog[i].idx < Len(signedTxs)
  /\ \A w \in 1..concurrentRequests : wIdx[w] < Len(signedTxs)
  /\ Cardinality(Claimers) <= Len(signedTxs)
  /\ bPc = "returned" =>
       /\ successCount + errorCount = Len(signedTxs)
       /\ \A w \in (1..concurrentRequests) \ Claimers :
            wPc[w] = "done" /\ wIdx[w] = -1

\* C40: when the configured concurrency exceeds the number of envelopes N
\* (N = 0 included), the surplus workers finish without claiming anything:
\* the shared index never exceeds N, no worker reads the queue at an index
\* >= N, and the broadcast returns with successCount + errorCount = N.
C40_SurplusWorkersClaimNothing ==
  /\ [](SurplusWorkers => SurplusClaimNothing)
  /\ (SurplusWorkers ~> (bPc = "returned"))

\* C40 happens: two workers and one envelope; the second worker has
\* finished without a claim and the broadcast has returned
C40_Witness ==
  /\ bPc = "returned"
  /\ concurrentRequests = 2
  /\ Len(signedTxs) = 1
  /\ Claimers = {1}
  /\ wIdx[2] = -1
  /\ successCount + errorCount = 1
=============================================================================
